---- MODULE Spec2Model ----
(***************************************************************************)
(* Model of the Anti-Raid settings crate: the dynamic Value type           *)
(* (src/src/value.rs), the schema types (src/src/types.rs), the            *)
(* coercion/validation engine and the four CRUD entry points               *)
(* (src/src/cfg.rs).                                                       *)
(*                                                                         *)
(* Strings are sequences of one-character strings, so that length,         *)
(* prefixes and parsers are computed rather than assumed.                  *)
(***************************************************************************)
EXTENDS Integers, Sequences, FiniteSets, TLC

\* Whether the build checks integer arithmetic for overflow (it panics on
\* overflow) or not (it wraps): fixed when the program is built.
VARIABLE overflow_checks

\* settings_viewer (serenity/ui.rs): the number of rows viewed, the page that
\* is shown, and the stream of button presses ("none" before the first
\* response is sent, "open" while the loop waits for the next press, "ended"
\* afterwards).
VARIABLES total_count, index, collect_stream

(***************************************************************************)
(* Value (value.rs: enum Value).  A value is a record [t, v]: the variant  *)
(* name and its payload.                                                   *)
(***************************************************************************)
VNone == [t |-> "None", v |-> 0]

VString(s) == [t |-> "String", v |-> s]

VInteger(i) == [t |-> "Integer", v |-> i]

VFloat(f) == [t |-> "Float", v |-> f]

VBoolean(b) == [t |-> "Boolean", v |-> b]

VList(l) == [t |-> "List", v |-> l]

\* the keys of a Map value are strings like any other: sequences of characters
VMap(m) == [t |-> "Map", v |-> m]

VUuid(u) == [t |-> "Uuid", v |-> u]

VTimestamp(ts) == [t |-> "Timestamp", v |-> ts]

VTimestampTz(ts) == [t |-> "TimestampTz", v |-> ts]

VInterval(secs) == [t |-> "Interval", v |-> secs]

VJson(j) == [t |-> "Json", v |-> j]

(***************************************************************************)
(* Result<_, SettingsError> and the SettingsError variants (types.rs).     *)
(***************************************************************************)
Ok(x) == [ok |-> TRUE, val |-> x]

Err(e) == [ok |-> FALSE, err |-> e]

\* A local binding, "let v = e;": Bind(e, LAMBDA v : body) is body with v
\* standing for the value of e.
Bind(e, F(_)) == F(e)

OperationNotSupported(op) == [kind |-> "OperationNotSupported", operation |-> op]

Generic(message, src, typ) ==
    [kind |-> "Generic", message |-> message, src |-> src, typ |-> typ]

\* got_type is format!("{:?}", v); the model keeps the variant name the
\* Debug rendering starts with.
SchemaTypeValidationError(column, expected_type, got_type) ==
    [kind |-> "SchemaTypeValidationError", column |-> column,
     expected_type |-> expected_type, got_type |-> got_type]

SchemaNullValueValidationError(column) ==
    [kind |-> "SchemaNullValueValidationError", column |-> column]

\* accepted_range and error are formatted strings; the model keeps them as
\* tuples of their literal part and the numbers formatted into them.
SchemaCheckValidationError(column, check, accepted_range, error) ==
    [kind |-> "SchemaCheckValidationError", column |-> column, check |-> check,
     accepted_range |-> accepted_range, error |-> error]

MissingOrInvalidField(field, src) ==
    [kind |-> "MissingOrInvalidField", field |-> field, src |-> src]

RowExists(column_id, count) ==
    [kind |-> "RowExists", column_id |-> column_id, count |-> count]

RowDoesNotExist(column_id) == [kind |-> "RowDoesNotExist", column_id |-> column_id]

MaximumCountReached(max, current) ==
    [kind |-> "MaximumCountReached", max |-> max, current |-> current]

(***************************************************************************)
(* Integer widths (i64 of Value::Integer, u64 of parse_duration_string).   *)
(***************************************************************************)
\* i64 and u64 are modelled with IntBits bits instead of 64, so that the
\* limits stay inside the model checker's integers.
IntBits == 20

I64Max == 2 ^ (IntBits - 1) - 1

I64Min == 0 - 2 ^ (IntBits - 1)

U64Max == 2 ^ IntBits - 1

(***************************************************************************)
(* Characters.                                                             *)
(***************************************************************************)
Digits == {"0", "1", "2", "3", "4", "5", "6", "7", "8", "9"}

DigitVal(c) ==
    CASE c = "0" -> 0 [] c = "1" -> 1 [] c = "2" -> 2 [] c = "3" -> 3
      [] c = "4" -> 4 [] c = "5" -> 5 [] c = "6" -> 6 [] c = "7" -> 7
      [] c = "8" -> 8 [] c = "9" -> 9

IsDigits(s) == \A i \in 1..Len(s) : s[i] \in Digits

\* The decimal number written by a sequence of digits, left to right.
RECURSIVE DecimalOf(_)
DecimalOf(s) ==
    IF s = <<>> THEN 0
    ELSE 10 * DecimalOf(SubSeq(s, 1, Len(s) - 1)) + DigitVal(s[Len(s)])

\* str::parse::<i64>: an optional sign, then one or more ASCII digits, the
\* number within the 64-bit signed range; anything else is an error.
ParseI64(s) ==
    LET signed == Len(s) > 0 /\ s[1] \in {"+", "-"}
        body == IF signed THEN Tail(s) ELSE s
        n == IF signed /\ s[1] = "-" THEN 0 - DecimalOf(body) ELSE DecimalOf(body)
    IN  IF body = <<>> \/ ~IsDigits(body) THEN [ok |-> FALSE, err |-> <<"ParseIntError">>]
        ELSE IF n > I64Max \/ n < I64Min THEN [ok |-> FALSE, err |-> <<"ParseIntError">>]
        ELSE [ok |-> TRUE, val |-> n]

\* str::parse::<bool>: exactly "true" or "false".
ParseBool(s) ==
    IF s = <<"t", "r", "u", "e">> THEN [ok |-> TRUE, val |-> TRUE]
    ELSE IF s = <<"f", "a", "l", "s", "e">> THEN [ok |-> TRUE, val |-> FALSE]
    ELSE [ok |-> FALSE, err |-> <<"ParseBoolError">>]

(***************************************************************************)
(* str::parse::<f64>.  A float is a record: cls is "finite", "inf" or      *)
(* "nan"; a finite float is (neg ? -1 : 1) * mant * 10^(-scale), with the  *)
(* trailing zeros of the fraction removed.                                 *)
(***************************************************************************)
FloatNaN == [cls |-> "nan", neg |-> FALSE, mant |-> 0, scale |-> 0]

FloatInf(neg) == [cls |-> "inf", neg |-> neg, mant |-> 0, scale |-> 0]

RECURSIVE FloatNorm(_, _, _)
FloatNorm(neg, mant, scale) ==
    IF scale > 0 /\ mant % 10 = 0 THEN FloatNorm(neg, mant \div 10, scale - 1)
    ELSE [cls |-> "finite", neg |-> neg, mant |-> mant, scale |-> scale]

FloatIsFinite(f) == f.cls = "finite"

LowerChar(c) ==
    CASE c = "A" -> "a" [] c = "B" -> "b" [] c = "C" -> "c" [] c = "D" -> "d"
      [] c = "E" -> "e" [] c = "F" -> "f" [] c = "I" -> "i" [] c = "N" -> "n"
      [] c = "T" -> "t" [] c = "Y" -> "y" [] OTHER -> c

Lower(s) == [i \in 1..Len(s) |-> LowerChar(s[i])]

\* Index of the first element of s that is in set, or 0.
RECURSIVE IndexIn(_, _, _)
IndexIn(s, set, i) ==
    IF i > Len(s) THEN 0 ELSE IF s[i] \in set THEN i ELSE IndexIn(s, set, i + 1)

ParseF64(s) ==
    LET signed == Len(s) > 0 /\ s[1] \in {"+", "-"}
        neg == signed /\ s[1] = "-"
        body == IF signed THEN Tail(s) ELSE s
        low == Lower(body)
        epos == IndexIn(body, {"e", "E"}, 1)
        numpart == IF epos = 0 THEN body ELSE SubSeq(body, 1, epos - 1)
        exppart == IF epos = 0 THEN <<"0">> ELSE SubSeq(body, epos + 1, Len(body))
        exp == ParseI64(exppart)
        dot == IndexIn(numpart, {"."}, 1)
        intpart == IF dot = 0 THEN numpart ELSE SubSeq(numpart, 1, dot - 1)
        fracpart == IF dot = 0 THEN <<>> ELSE SubSeq(numpart, dot + 1, Len(numpart))
        mant == DecimalOf(intpart \o fracpart)
        bad == [ok |-> FALSE, err |-> <<"ParseFloatError">>]
    IN  IF low = <<"n", "a", "n">> THEN [ok |-> TRUE, val |-> FloatNaN]
        ELSE IF low = <<"i", "n", "f">> \/ low = <<"i", "n", "f", "i", "n", "i", "t", "y">>
             THEN [ok |-> TRUE, val |-> FloatInf(neg)]
        ELSE IF ~IsDigits(intpart) \/ ~IsDigits(fracpart) \/ intpart \o fracpart = <<>>
             THEN bad
        ELSE IF ~exp.ok THEN bad
        ELSE IF exp.val >= Len(fracpart)
             THEN [ok |-> TRUE,
                   val |-> FloatNorm(neg, mant * 10 ^ (exp.val - Len(fracpart)), 0)]
        ELSE [ok |-> TRUE, val |-> FloatNorm(neg, mant, Len(fracpart) - exp.val)]

(***************************************************************************)
(* uuid::Uuid.  A Uuid is its 32 lower-case hexadecimal digits.            *)
(***************************************************************************)
HexLower == Digits \cup {"a", "b", "c", "d", "e", "f"}

HexChars == HexLower \cup {"A", "B", "C", "D", "E", "F"}

IsHex(s) == \A i \in 1..Len(s) : s[i] \in HexChars

\* Uuid::to_string: lower-case hyphenated form, groups of 8-4-4-4-12.
UuidToString(u) ==
    SubSeq(u, 1, 8) \o <<"-">> \o SubSeq(u, 9, 12) \o <<"-">> \o SubSeq(u, 13, 16)
        \o <<"-">> \o SubSeq(u, 17, 20) \o <<"-">> \o SubSeq(u, 21, 32)

\* str::parse::<Uuid>: the simple form (32 hex digits) or the hyphenated
\* form, in either case, optionally in braces or after "urn:uuid:".
ParseUuidPlain(s) ==
    LET hyph == Len(s) = 36 /\ s[9] = "-" /\ s[14] = "-" /\ s[19] = "-" /\ s[24] = "-"
        hex == IF hyph
               THEN SubSeq(s, 1, 8) \o SubSeq(s, 10, 13) \o SubSeq(s, 15, 18)
                        \o SubSeq(s, 20, 23) \o SubSeq(s, 25, 36)
               ELSE s
    IN  IF Len(hex) = 32 /\ IsHex(hex) THEN [ok |-> TRUE, val |-> Lower(hex)]
        ELSE [ok |-> FALSE, err |-> <<"uuid::Error">>]

UrnPrefix == <<"u", "r", "n", ":", "u", "u", "i", "d", ":">>

ParseUuid(s) ==
    IF Len(s) >= 2 /\ s[1] = "{" /\ s[Len(s)] = "}"
    THEN ParseUuidPlain(SubSeq(s, 2, Len(s) - 1))
    ELSE IF Len(s) >= 9 /\ SubSeq(s, 1, 9) = UrnPrefix
    THEN ParseUuidPlain(SubSeq(s, 10, Len(s)))
    ELSE ParseUuidPlain(s)

(***************************************************************************)
(* chrono date-times.  A NaiveDateTime is [y, mo, d, h, mi, s]; a          *)
(* DateTime<Utc> is the same record, read in UTC.                          *)
(***************************************************************************)
IsLeap(y) == (y % 4 = 0 /\ y % 100 # 0) \/ y % 400 = 0

DaysInMonth(y, mo) ==
    IF mo = 2 THEN (IF IsLeap(y) THEN 29 ELSE 28)
    ELSE IF mo \in {4, 6, 9, 11} THEN 30 ELSE 31

ValidDateTime(dt) ==
    /\ dt.mo \in 1..12
    /\ dt.d >= 1 /\ dt.d <= DaysInMonth(dt.y, dt.mo)
    /\ dt.h \in 0..23 /\ dt.mi \in 0..59 /\ dt.s \in 0..59

\* The fixed-width fields of "YYYY-MM-DD?HH:MM:SS", the separator at
\* position 11 being sep.
DateTimeFields(s, sep) ==
    LET shape == /\ Len(s) = 19
                 /\ s[5] = "-" /\ s[8] = "-" /\ s[11] = sep /\ s[14] = ":" /\ s[17] = ":"
                 /\ IsDigits(SubSeq(s, 1, 4)) /\ IsDigits(SubSeq(s, 6, 7))
                 /\ IsDigits(SubSeq(s, 9, 10)) /\ IsDigits(SubSeq(s, 12, 13))
                 /\ IsDigits(SubSeq(s, 15, 16)) /\ IsDigits(SubSeq(s, 18, 19))
        dt == [y |-> DecimalOf(SubSeq(s, 1, 4)), mo |-> DecimalOf(SubSeq(s, 6, 7)),
               d |-> DecimalOf(SubSeq(s, 9, 10)), h |-> DecimalOf(SubSeq(s, 12, 13)),
               mi |-> DecimalOf(SubSeq(s, 15, 16)), s |-> DecimalOf(SubSeq(s, 18, 19))]
    IN  IF shape /\ ValidDateTime(dt) THEN [ok |-> TRUE, val |-> dt]
        ELSE [ok |-> FALSE, err |-> <<"chrono::ParseError">>]

\* NaiveDateTime::parse_from_str(s, "%Y-%m-%d %H:%M:%S")
ParseNaiveDateTime(s) == DateTimeFields(s, " ")

PrevDay(dt) ==
    IF dt.d > 1 THEN [dt EXCEPT !.d = dt.d - 1]
    ELSE IF dt.mo > 1 THEN [dt EXCEPT !.mo = dt.mo - 1, !.d = DaysInMonth(dt.y, dt.mo - 1)]
    ELSE [dt EXCEPT !.y = dt.y - 1, !.mo = 12, !.d = 31]

NextDay(dt) ==
    IF dt.d < DaysInMonth(dt.y, dt.mo) THEN [dt EXCEPT !.d = dt.d + 1]
    ELSE IF dt.mo < 12 THEN [dt EXCEPT !.mo = dt.mo + 1, !.d = 1]
    ELSE [dt EXCEPT !.y = dt.y + 1, !.mo = 1, !.d = 1]

\* The UTC date-time of local date-time dt at an offset of off minutes.
ToUtc(dt, off) ==
    LET m == dt.h * 60 + dt.mi - off
    IN  IF m < 0 THEN [PrevDay(dt) EXCEPT !.h = (m + 1440) \div 60, !.mi = (m + 1440) % 60]
        ELSE IF m >= 1440
             THEN [NextDay(dt) EXCEPT !.h = (m - 1440) \div 60, !.mi = (m - 1440) % 60]
        ELSE [dt EXCEPT !.h = m \div 60, !.mi = m % 60]

\* DateTime::parse_from_rfc3339 followed by naive_utc(): date "T" time and
\* "Z" or a numeric offset +HH:MM / -HH:MM.
ParseRfc3339Utc(s) ==
    LET bad == [ok |-> FALSE, err |-> <<"chrono::ParseError">>]
        dt == DateTimeFields(SubSeq(s, 1, 19), "T")
        zone == SubSeq(s, 20, Len(s))
        numeric == /\ Len(zone) = 6 /\ zone[1] \in {"+", "-"} /\ zone[4] = ":"
                   /\ IsDigits(SubSeq(zone, 2, 3)) /\ IsDigits(SubSeq(zone, 5, 6))
        hh == DecimalOf(SubSeq(zone, 2, 3))
        mm == DecimalOf(SubSeq(zone, 5, 6))
        off == IF zone[1] = "-" THEN 0 - (hh * 60 + mm) ELSE hh * 60 + mm
    IN  IF Len(s) < 20 \/ ~dt.ok THEN bad
        ELSE IF zone = <<"Z">> \/ zone = <<"z">> THEN [ok |-> TRUE, val |-> dt.val]
        ELSE IF numeric /\ hh <= 23 /\ mm <= 59 THEN [ok |-> TRUE, val |-> ToUtc(dt.val, off)]
        ELSE bad

(***************************************************************************)
(* Intervals (cfg.rs: Unit, parse_duration_string).  A chrono::Duration    *)
(* is its number of whole seconds.                                         *)
(***************************************************************************)
UnitSeconds == {<<"s", "e", "c", "o", "n", "d", "s">>, <<"s", "e", "c", "o", "n", "d">>,
                <<"s", "e", "c", "s">>, <<"s", "e", "c">>, <<"s">>}

UnitMinutes == {<<"m", "i", "n", "u", "t", "e", "s">>, <<"m", "i", "n", "u", "t", "e">>,
                <<"m", "i", "n", "s">>, <<"m", "i", "n">>, <<"m">>}

UnitHours == {<<"h", "o", "u", "r", "s">>, <<"h", "o", "u", "r">>, <<"h", "r", "s">>,
              <<"h", "r">>, <<"h">>}

UnitDays == {<<"d", "a", "y", "s">>, <<"d", "a", "y">>, <<"d">>}

UnitWeeks == {<<"w", "e", "e", "k", "s">>, <<"w", "e", "e", "k">>, <<"w">>}

\* Unit::try_from
UnitTryFrom(u) ==
    IF u \in UnitSeconds THEN [ok |-> TRUE, val |-> "Seconds"]
    ELSE IF u \in UnitMinutes THEN [ok |-> TRUE, val |-> "Minutes"]
    ELSE IF u \in UnitHours THEN [ok |-> TRUE, val |-> "Hours"]
    ELSE IF u \in UnitDays THEN [ok |-> TRUE, val |-> "Days"]
    ELSE IF u \in UnitWeeks THEN [ok |-> TRUE, val |-> "Weeks"]
    ELSE [ok |-> FALSE, err |-> <<"Invalid unit">>]

\* Unit::to_seconds
to_seconds(unit) ==
    CASE unit = "Seconds" -> 1 [] unit = "Minutes" -> 60 [] unit = "Hours" -> 3600
      [] unit = "Days" -> 86400 [] unit = "Weeks" -> 604800

\* The loop of parse_duration_string from character i on: digits are
\* accumulated into number, spaces skipped, other characters appended to
\* unit.  The u64 arithmetic panics on overflow when overflow checks are
\* on and wraps when they are off (the build decides).
RECURSIVE DurationScan(_, _, _, _)
DurationScan(s, i, number, unit) ==
    IF i > Len(s) THEN [panic |-> FALSE, number |-> number, unit |-> unit]
    ELSE IF s[i] \in Digits
         THEN IF overflow_checks /\ number > (U64Max - DigitVal(s[i])) \div 10
              THEN [panic |-> TRUE, number |-> 0, unit |-> unit]
              ELSE DurationScan(s, i + 1,
                                (number * 10 + DigitVal(s[i])) % (U64Max + 1), unit)
    ELSE IF s[i] = " " THEN DurationScan(s, i + 1, number, unit)
    ELSE DurationScan(s, i + 1, number, Append(unit, s[i]))

parse_duration_string(s) ==
    LET scan == DurationScan(s, 1, 0, <<>>)
        unit == UnitTryFrom(scan.unit)
    IN  IF scan.panic THEN [ok |-> FALSE, panic |-> TRUE, err |-> <<"overflow">>]
        ELSE IF ~unit.ok THEN [ok |-> FALSE, panic |-> FALSE, err |-> unit.err]
        ELSE [ok |-> TRUE, panic |-> FALSE, number |-> scan.number, unit |-> unit.val]

\* chrono::Duration holds at most i64::MAX milliseconds.
MaxDurationSecs == I64Max \div 1000

parse_duration_string_to_chrono_duration(s) ==
    LET p == parse_duration_string(s)
    IN  IF ~p.ok THEN p
        ELSE IF overflow_checks /\ p.number > U64Max \div to_seconds(p.unit)
             THEN [ok |-> FALSE, panic |-> TRUE, err |-> <<"overflow">>]
        ELSE IF (p.number * to_seconds(p.unit)) % (U64Max + 1) > MaxDurationSecs
             THEN [ok |-> FALSE, panic |-> FALSE, err |-> <<"OutOfRangeError">>]
        ELSE [ok |-> TRUE, panic |-> FALSE,
              val |-> (p.number * to_seconds(p.unit)) % (U64Max + 1)]

(***************************************************************************)
(* serde_json::Value: a record [j, v] of the JSON kind and its payload.    *)
(* An object is a sequence of <<key, value>> pairs.                        *)
(***************************************************************************)
JNull == [j |-> "Null", v |-> 0]

JBool(b) == [j |-> "Bool", v |-> b]

JInt(i) == [j |-> "Int", v |-> i]

JFloat(f) == [j |-> "Float", v |-> f]

JString(s) == [j |-> "String", v |-> s]

JArray(a) == [j |-> "Array", v |-> a]

JObject(o) == [j |-> "Object", v |-> o]

\* Number of decimal digits of n >= 0.
RECURSIVE NumDigits(_)
NumDigits(n) == IF n < 10 THEN 1 ELSE 1 + NumDigits(n \div 10)

IntTextLen(i) == IF i < 0 THEN 1 + NumDigits(0 - i) ELSE NumDigits(i)

\* Length of the text of a finite float: sign, integer digits, the point
\* and at least one fraction digit ("1.0", "-0.5").
FloatTextLen(f) ==
    LET ip == f.mant \div (10 ^ f.scale)
    IN  (IF f.neg THEN 1 ELSE 0) + NumDigits(ip) + 1 + (IF f.scale = 0 THEN 1 ELSE f.scale)

\* Bytes of a string inside JSON quotes: the quote and the backslash are
\* escaped with one more byte.
RECURSIVE EscapedLen(_)
EscapedLen(s) ==
    IF s = <<>> THEN 0
    ELSE (IF Head(s) \in {"\"", "\\"} THEN 2 ELSE 1) + EscapedLen(Tail(s))

RECURSIVE SumSeq(_)
SumSeq(q) == IF q = <<>> THEN 0 ELSE Head(q) + SumSeq(Tail(q))

\* Length in bytes of serde_json::to_string(j) (compact form).
RECURSIVE JsonLen(_)
JsonLen(j) ==
    CASE j.j = "Null" -> 4
      [] j.j = "Bool" -> IF j.v THEN 4 ELSE 5
      [] j.j = "Int" -> IntTextLen(j.v)
      [] j.j = "Float" -> FloatTextLen(j.v)
      [] j.j = "String" -> 2 + EscapedLen(j.v)
      [] j.j = "Array" ->
            2 + SumSeq([i \in 1..Len(j.v) |-> JsonLen(j.v[i])])
              + (IF Len(j.v) > 1 THEN Len(j.v) - 1 ELSE 0)
      [] j.j = "Object" ->
            2 + SumSeq([i \in 1..Len(j.v) |->
                          2 + EscapedLen(j.v[i][1]) + 1 + JsonLen(j.v[i][2])])
              + (IF Len(j.v) > 1 THEN Len(j.v) - 1 ELSE 0)

\* serde_json::Map::insert on the ordered pairs: replace or append.
JObjInsert(o, k, x) ==
    IF \E i \in 1..Len(o) : o[i][1] = k
    THEN [i \in 1..Len(o) |-> IF o[i][1] = k THEN <<k, x>> ELSE o[i]]
    ELSE Append(o, <<k, x>>)

(***************************************************************************)
(* indexmap::IndexMap<String, Value>: a sequence of <<key, value>> pairs   *)
(* with distinct keys, in insertion order.                                 *)
(***************************************************************************)
MapKeys(m) == {m[i][1] : i \in 1..Len(m)}

MapHas(m, k) == k \in MapKeys(m)

MapIndex(m, k) == CHOOSE i \in 1..Len(m) : m[i][1] = k

\* IndexMap::get(k), where the key is present
MapGet(m, k) == m[MapIndex(m, k)][2]

\* IndexMap::insert: replaces the value in place, or appends the pair.
MapInsert(m, k, x) ==
    IF MapHas(m, k)
    THEN [i \in 1..Len(m) |-> IF m[i][1] = k THEN <<k, x>> ELSE m[i]]
    ELSE Append(m, <<k, x>>)

\* IndexMap::swap_remove: the last pair takes the place of the removed one.
MapSwapRemove(m, k) ==
    IF ~MapHas(m, k) THEN m
    ELSE LET i == MapIndex(m, k)
             n == Len(m)
         IN  [p \in 1..(n - 1) |-> IF p = i THEN m[n] ELSE m[p]]

\* state.swap_remove(&id).unwrap_or(Value::None)
MapTakeOrNone(m, k) == IF MapHas(m, k) THEN MapGet(m, k) ELSE VNone

\* IndexMap equality does not depend on the order of the pairs.
MapEq(a, b) ==
    /\ MapKeys(a) = MapKeys(b)
    /\ \A k \in MapKeys(a) : MapGet(a, k) = MapGet(b, k)

(***************************************************************************)
(* Value::to_json (value.rs).                                              *)
(***************************************************************************)
DigitChar(n) ==
    CASE n = 0 -> "0" [] n = 1 -> "1" [] n = 2 -> "2" [] n = 3 -> "3" [] n = 4 -> "4"
      [] n = 5 -> "5" [] n = 6 -> "6" [] n = 7 -> "7" [] n = 8 -> "8" [] n = 9 -> "9"

Pad2(n) == <<DigitChar((n \div 10) % 10), DigitChar(n % 10)>>

Pad4(n) == Pad2(n \div 100) \o Pad2(n % 100)

\* NaiveDateTime::to_string: "YYYY-MM-DD HH:MM:SS"
NaiveToString(dt) ==
    Pad4(dt.y) \o <<"-">> \o Pad2(dt.mo) \o <<"-">> \o Pad2(dt.d) \o <<" ">>
        \o Pad2(dt.h) \o <<":">> \o Pad2(dt.mi) \o <<":">> \o Pad2(dt.s)

\* DateTime<Utc>::to_string: "YYYY-MM-DD HH:MM:SS UTC"
UtcToString(dt) == NaiveToString(dt) \o <<" ", "U", "T", "C">>

RECURSIVE to_json(_)
RECURSIVE MapToJson(_, _)
\* the loop of the Map arm: obj.insert(k, v.to_json()) for each pair
MapToJson(m, obj) ==
    IF m = <<>> THEN obj
    ELSE MapToJson(Tail(m), JObjInsert(obj, Head(m)[1], to_json(Head(m)[2])))

to_json(x) ==
    CASE x.t = "Uuid" -> JString(UuidToString(x.v))
      [] x.t = "String" -> JString(x.v)
      [] x.t = "Timestamp" -> JString(NaiveToString(x.v))
      [] x.t = "TimestampTz" -> JString(UtcToString(x.v))
      [] x.t = "Integer" -> JInt(x.v)
      [] x.t = "Interval" -> JInt(x.v)
      [] x.t = "Float" -> IF FloatIsFinite(x.v) THEN JFloat(x.v) ELSE JInt(0)
      [] x.t = "Boolean" -> JBool(x.v)
      [] x.t = "List" -> JArray([i \in 1..Len(x.v) |-> to_json(x.v[i])])
      [] x.t = "Map" -> JObject(MapToJson(x.v, <<>>))
      [] x.t = "Json" -> x.v
      [] x.t = "None" -> JNull

(***************************************************************************)
(* serde_json::from_str: a recursive-descent reader.  Each reader returns  *)
(* [ok, val, pos]: the value read and the position after it.               *)
(***************************************************************************)
JsonBad == [ok |-> FALSE, val |-> JNull, pos |-> 0]

JsonWs == {" "}

RECURSIVE SkipWs(_, _)
SkipWs(s, i) == IF i <= Len(s) /\ s[i] \in JsonWs THEN SkipWs(s, i + 1) ELSE i

HasAt(s, i, lit) == i + Len(lit) - 1 <= Len(s) /\ SubSeq(s, i, i + Len(lit) - 1) = lit

\* Position after the last digit of the run of digits starting at i.
RECURSIVE DigitsEnd(_, _)
DigitsEnd(s, i) == IF i <= Len(s) /\ s[i] \in Digits THEN DigitsEnd(s, i + 1) ELSE i

\* A string body from position i (after the opening quote) with acc read so far.
RECURSIVE ReadJsonString(_, _, _)
ReadJsonString(s, i, acc) ==
    IF i > Len(s) THEN JsonBad
    ELSE IF s[i] = "\"" THEN [ok |-> TRUE, val |-> acc, pos |-> i + 1]
    ELSE IF s[i] = "\\"
         THEN IF i + 1 <= Len(s) /\ s[i + 1] \in {"\"", "\\"}
              THEN ReadJsonString(s, i + 2, Append(acc, s[i + 1]))
              ELSE JsonBad
    ELSE ReadJsonString(s, i + 1, Append(acc, s[i]))

ReadJsonNumber(s, i) ==
    LET neg == s[i] = "-"
        a == IF neg THEN i + 1 ELSE i
        b == DigitsEnd(s, a)
        ip == SubSeq(s, a, b - 1)
        frac == b <= Len(s) /\ s[b] = "."
        c == IF frac THEN DigitsEnd(s, b + 1) ELSE b
        fp == IF frac THEN SubSeq(s, b + 1, c - 1) ELSE <<>>
        n == DecimalOf(ip)
    IN  IF ip = <<>> \/ (Len(ip) > 1 /\ ip[1] = "0") \/ (frac /\ fp = <<>>) THEN JsonBad
        ELSE IF frac
             THEN [ok |-> TRUE, pos |-> c,
                   val |-> JFloat(FloatNorm(neg, DecimalOf(ip \o fp), Len(fp)))]
        ELSE [ok |-> TRUE, pos |-> c, val |-> JInt(IF neg THEN 0 - n ELSE n)]

RECURSIVE ReadJsonValue(_, _)
RECURSIVE ReadJsonElems(_, _, _)
RECURSIVE ReadJsonMembers(_, _, _)
\* The elements of an array after "[" or ",", acc being those read so far.
ReadJsonElems(s, i, acc) ==
    LET e == ReadJsonValue(s, i)
        k == SkipWs(s, e.pos)
    IN  IF ~e.ok \/ k > Len(s) THEN JsonBad
        ELSE IF s[k] = "]" THEN [ok |-> TRUE, val |-> JArray(Append(acc, e.val)), pos |-> k + 1]
        ELSE IF s[k] = "," THEN ReadJsonElems(s, k + 1, Append(acc, e.val))
        ELSE JsonBad

\* The members of an object after "{" or ",", acc being those read so far.
ReadJsonMembers(s, i, acc) ==
    LET a == SkipWs(s, i)
        key == IF a <= Len(s) /\ s[a] = "\"" THEN ReadJsonString(s, a + 1, <<>>) ELSE JsonBad
        c == SkipWs(s, key.pos)
        e == IF key.ok /\ c <= Len(s) /\ s[c] = ":" THEN ReadJsonValue(s, c + 1) ELSE JsonBad
        k == SkipWs(s, e.pos)
    IN  IF ~e.ok \/ k > Len(s) THEN JsonBad
        ELSE IF s[k] = "}"
             THEN [ok |-> TRUE, val |-> JObject(JObjInsert(acc, key.val, e.val)), pos |-> k + 1]
        ELSE IF s[k] = "," THEN ReadJsonMembers(s, k + 1, JObjInsert(acc, key.val, e.val))
        ELSE JsonBad

ReadJsonValue(s, i0) ==
    LET i == SkipWs(s, i0)
    IN  IF i > Len(s) THEN JsonBad
        ELSE IF HasAt(s, i, <<"n", "u", "l", "l">>)
             THEN [ok |-> TRUE, val |-> JNull, pos |-> i + 4]
        ELSE IF HasAt(s, i, <<"t", "r", "u", "e">>)
             THEN [ok |-> TRUE, val |-> JBool(TRUE), pos |-> i + 4]
        ELSE IF HasAt(s, i, <<"f", "a", "l", "s", "e">>)
             THEN [ok |-> TRUE, val |-> JBool(FALSE), pos |-> i + 5]
        ELSE IF s[i] = "\""
             THEN LET r == ReadJsonString(s, i + 1, <<>>)
                  IN  IF r.ok THEN [ok |-> TRUE, val |-> JString(r.val), pos |-> r.pos]
                      ELSE JsonBad
        ELSE IF s[i] \in Digits \cup {"-"} THEN ReadJsonNumber(s, i)
        ELSE IF s[i] = "["
             THEN LET k == SkipWs(s, i + 1)
                  IN  IF k <= Len(s) /\ s[k] = "]"
                      THEN [ok |-> TRUE, val |-> JArray(<<>>), pos |-> k + 1]
                      ELSE ReadJsonElems(s, i + 1, <<>>)
        ELSE IF s[i] = "{"
             THEN LET k == SkipWs(s, i + 1)
                  IN  IF k <= Len(s) /\ s[k] = "}"
                      THEN [ok |-> TRUE, val |-> JObject(<<>>), pos |-> k + 1]
                      ELSE ReadJsonMembers(s, i + 1, <<>>)
        ELSE JsonBad

\* serde_json::from_str: one value, then only whitespace.
JsonFromStr(s) ==
    LET r == ReadJsonValue(s, 1)
    IN  IF r.ok /\ SkipWs(s, r.pos) > Len(s) THEN [ok |-> TRUE, val |-> r.val]
        ELSE [ok |-> FALSE, err |-> <<"serde_json::Error">>]

(***************************************************************************)
(* Schema types (types.rs): Option, InnerColumnType, ColumnType.           *)
(***************************************************************************)
NoneOpt == [some |-> FALSE, v |-> 0]

Some(n) == [some |-> TRUE, v |-> n]

\* Option::unwrap_or
UnwrapOr(o, d) == IF o.some THEN o.v ELSE d

TUuid == [t |-> "Uuid"]

\* allowed_values is a sequence of strings; kind does not take part in
\* validation.
TString(min_length, max_length, allowed_values) ==
    [t |-> "String", min_length |-> min_length, max_length |-> max_length,
     allowed_values |-> allowed_values]

TTimestamp == [t |-> "Timestamp"]

TTimestampTz == [t |-> "TimestampTz"]

TInterval == [t |-> "Interval"]

TInteger == [t |-> "Integer"]

TFloat == [t |-> "Float"]

\* values is the IndexMap<String, i64> as a sequence of <<name, bit>> pairs.
TBitFlag(values) == [t |-> "BitFlag", values |-> values]

TBoolean == [t |-> "Boolean"]

TJson(max_bytes) == [t |-> "Json", max_bytes |-> max_bytes]

\* ColumnType::new_scalar
new_scalar(inner) == [shape |-> "Scalar", inner |-> inner]

\* ColumnType::new_array
new_array(inner) == [shape |-> "Array", inner |-> inner]

(***************************************************************************)
(* Bitwise operations on i64, in two's complement over IntBits bits.       *)
(***************************************************************************)
ToUnsigned(a) == IF a < 0 THEN a + 2 ^ IntBits ELSE a

ToSigned(u) == IF u >= 2 ^ (IntBits - 1) THEN u - 2 ^ IntBits ELSE u

RECURSIVE AndBits(_, _, _)
AndBits(a, b, n) ==
    IF n = 0 THEN 0
    ELSE (IF a % 2 = 1 /\ b % 2 = 1 THEN 1 ELSE 0) + 2 * AndBits(a \div 2, b \div 2, n - 1)

RECURSIVE OrBits(_, _, _)
OrBits(a, b, n) ==
    IF n = 0 THEN 0
    ELSE (IF a % 2 = 1 \/ b % 2 = 1 THEN 1 ELSE 0) + 2 * OrBits(a \div 2, b \div 2, n - 1)

BitAnd(a, b) == ToSigned(AndBits(ToUnsigned(a), ToUnsigned(b), IntBits))

BitOr(a, b) == ToSigned(OrBits(ToUnsigned(a), ToUnsigned(b), IntBits))

\* Variant of BitFlagFold that or-s in every declared bit sharing some bit
\* with x.
RECURSIVE BitFlagFoldAnyBit(_, _, _)
BitFlagFoldAnyBit(values, x, final_value) ==
    IF values = <<>> THEN final_value
    ELSE BitFlagFoldAnyBit(Tail(values), x,
                           IF BitAnd(Head(values)[2], x) # 0
                           THEN BitOr(final_value, Head(values)[2])
                           ELSE final_value)

\* The loop "for (_, bit) in values.iter()": every declared bit wholly set
\* in x is or-ed into final_value.
RECURSIVE BitFlagFold(_, _, _)
BitFlagFold(values, x, final_value) ==
    IF values = <<>> THEN final_value
    ELSE BitFlagFold(Tail(values), x,
                     IF BitAnd(Head(values)[2], x) = Head(values)[2]
                     THEN BitOr(final_value, Head(values)[2])
                     ELSE final_value)

\* Variant of BitFlagCoerce that leaves out the default value.
BitFlagCoerceNoDefault(values, x, column_id) ==
    IF values = <<>>
    THEN Err(SchemaCheckValidationError(column_id, "bitflag_default",
                 <<"Valid bitflag">>, <<"No default value found">>))
    ELSE Ok(VInteger(BitFlagFold(values, x, 0)))

\* The Integer arm of the BitFlag case (also run on a parsed String).
BitFlagCoerce(values, x, column_id) ==
    Bind(BitFlagFold(values, x, 0), LAMBDA final_value :
        IF final_value = 0
        THEN IF values = <<>>
             THEN Err(SchemaCheckValidationError(column_id, "bitflag_default",
                          <<"Valid bitflag">>, <<"No default value found">>))
             ELSE Ok(VInteger(values[1][2]))
        ELSE Ok(VInteger(final_value)))

(***************************************************************************)
(* _parse_value (cfg.rs): coercion of a value to the column type.          *)
(***************************************************************************)
\* A panic is not a SettingsError; the model records it as an outcome of
\* its own kind.
Panicked(column_id) == Err([kind |-> "panic", column |-> column_id])

CheckErr(column_id, check, accepted_range, error) ==
    Err(SchemaCheckValidationError(column_id, check, accepted_range, error))

TypeErr(column_id, expected_type, x) ==
    Err(SchemaTypeValidationError(column_id, expected_type, x.t))

ParseUuidArm(x, column_id) ==
    CASE x.t = "String" ->
            Bind(ParseUuid(x.v), LAMBDA r :
                IF r.ok THEN Ok(VUuid(r.val))
                ELSE CheckErr(column_id, "uuid_parse", <<"Valid UUID">>, r.err))
      [] x.t \in {"Uuid", "None"} -> Ok(x)
      [] OTHER -> TypeErr(column_id, "Uuid", x)

ParseStringArm(x, column_id) ==
    CASE x.t = "String" -> Ok(x)
      [] x.t = "Uuid" -> Ok(VString(UuidToString(x.v)))
      [] x.t = "None" -> Ok(x)
      [] OTHER -> TypeErr(column_id, "String", x)

ParseTimestampArm(x, column_id) ==
    CASE x.t = "String" ->
            Bind(ParseNaiveDateTime(x.v), LAMBDA r :
                IF r.ok THEN Ok(VTimestamp(r.val))
                ELSE CheckErr(column_id, "timestamp_parse", <<"Valid timestamp">>, r.err))
      [] x.t \in {"Timestamp", "None"} -> Ok(x)
      [] x.t = "TimestampTz" -> Ok(VTimestamp(x.v))
      [] OTHER -> TypeErr(column_id, "Timestamp", x)

ParseTimestampTzArm(x, column_id) ==
    CASE x.t = "String" ->
            Bind(ParseRfc3339Utc(x.v), LAMBDA r :
                IF r.ok THEN Ok(VTimestampTz(r.val))
                ELSE CheckErr(column_id, "timestamp_tz_parse",
                              <<"Valid timestamp with timezone">>, r.err))
      [] x.t = "Timestamp" -> Ok(VTimestampTz(x.v))
      [] x.t \in {"TimestampTz", "None"} -> Ok(x)
      [] OTHER -> TypeErr(column_id, "TimestampTz", x)

\* Variant of ParseIntervalArm that takes no value that is an Interval
\* already.
ParseIntervalArmNoPassthrough(x, column_id) ==
    CASE x.t = "String" ->
            Bind(parse_duration_string_to_chrono_duration(x.v), LAMBDA r :
                IF r.ok THEN Ok(VInterval(r.val))
                ELSE IF r.panic THEN Panicked(column_id)
                ELSE CheckErr(column_id, "interval_parse", <<"Valid interval">>, r.err))
      [] x.t = "Integer" ->
            IF x.v > MaxDurationSecs \/ x.v < 0 - MaxDurationSecs THEN Panicked(column_id)
            ELSE Ok(VInterval(x.v))
      [] x.t = "None" -> Ok(x)
      [] OTHER -> TypeErr(column_id, "Interval", x)

ParseIntervalArm(x, column_id) ==
    CASE x.t = "String" ->
            Bind(parse_duration_string_to_chrono_duration(x.v), LAMBDA r :
                IF r.ok THEN Ok(VInterval(r.val))
                ELSE IF r.panic THEN Panicked(column_id)
                ELSE CheckErr(column_id, "interval_parse", <<"Valid interval">>, r.err))
      [] x.t = "Integer" ->
            \* chrono::Duration::seconds panics outside its range
            IF x.v > MaxDurationSecs \/ x.v < 0 - MaxDurationSecs THEN Panicked(column_id)
            ELSE Ok(VInterval(x.v))
      [] x.t \in {"Interval", "None"} -> Ok(x)
      [] OTHER -> TypeErr(column_id, "Interval", x)

\* Variant of ParseIntegerArm that gives the empty String to the integer
\* parser.
ParseIntegerArmStrict(x, column_id) ==
    CASE x.t = "String" ->
            Bind(ParseI64(x.v), LAMBDA r :
                IF r.ok THEN Ok(VInteger(r.val))
                ELSE CheckErr(column_id, "integer_parse", <<"Valid integer">>, r.err))
      [] x.t = "Integer" -> Ok(VInteger(x.v))
      [] x.t = "None" -> Ok(x)
      [] OTHER -> TypeErr(column_id, "Integer", x)

\* Variant of ParseIntegerArm that reports an unparsable String as a type
\* mismatch.
ParseIntegerArmTypeErr(x, column_id) ==
    CASE x.t = "String" ->
            IF x.v = <<>> THEN Ok(VNone)
            ELSE Bind(ParseI64(x.v), LAMBDA r :
                     IF r.ok THEN Ok(VInteger(r.val))
                     ELSE TypeErr(column_id, "Integer", x))
      [] x.t = "Integer" -> Ok(VInteger(x.v))
      [] x.t = "None" -> Ok(x)
      [] OTHER -> TypeErr(column_id, "Integer", x)

ParseIntegerArm(x, column_id) ==
    CASE x.t = "String" ->
            IF x.v = <<>> THEN Ok(VNone)
            ELSE Bind(ParseI64(x.v), LAMBDA r :
                     IF r.ok THEN Ok(VInteger(r.val))
                     ELSE CheckErr(column_id, "integer_parse", <<"Valid integer">>, r.err))
      [] x.t = "Integer" -> Ok(VInteger(x.v))
      [] x.t = "None" -> Ok(x)
      [] OTHER -> TypeErr(column_id, "Integer", x)

\* Variant of ParseFloatArm that converts an Integer into a Float.
ParseFloatArmFromInteger(x, column_id) ==
    CASE x.t = "String" ->
            Bind(ParseF64(x.v), LAMBDA r :
                IF r.ok THEN Ok(VFloat(r.val))
                ELSE CheckErr(column_id, "float_parse", <<"Valid float">>, r.err))
      [] x.t = "Float" -> Ok(VFloat(x.v))
      [] x.t = "Integer" ->
            Ok(VFloat(FloatNorm(x.v < 0, IF x.v < 0 THEN 0 - x.v ELSE x.v, 0)))
      [] x.t = "None" -> Ok(x)
      [] OTHER -> TypeErr(column_id, "Float", x)

ParseFloatArm(x, column_id) ==
    CASE x.t = "String" ->
            Bind(ParseF64(x.v), LAMBDA r :
                IF r.ok THEN Ok(VFloat(r.val))
                ELSE CheckErr(column_id, "float_parse", <<"Valid float">>, r.err))
      [] x.t = "Float" -> Ok(VFloat(x.v))
      [] x.t = "None" -> Ok(x)
      [] OTHER -> TypeErr(column_id, "Float", x)

ParseBitFlagArm(x, values, column_id) ==
    CASE x.t = "Integer" -> BitFlagCoerce(values, x.v, column_id)
      [] x.t = "String" ->
            IF x.v = <<>>
            THEN IF values = <<>>
                 THEN CheckErr(column_id, "bitflag_default", <<"Valid bitflag">>,
                               <<"No default value found">>)
                 ELSE Ok(VInteger(values[1][2]))
            ELSE Bind(ParseI64(x.v), LAMBDA r :
                     IF r.ok THEN BitFlagCoerce(values, r.val, column_id)
                     ELSE CheckErr(column_id, "bitflag_parse", <<"Valid bitflag">>, r.err))
      [] x.t = "None" -> Ok(x)
      [] OTHER -> TypeErr(column_id, "Integer", x)

ParseBooleanArm(x, column_id) ==
    CASE x.t = "String" ->
            Bind(ParseBool(x.v), LAMBDA r :
                IF r.ok THEN Ok(VBoolean(r.val))
                ELSE CheckErr(column_id, "boolean_parse", <<"Valid boolean">>, r.err))
      [] x.t = "Boolean" -> Ok(VBoolean(x.v))
      [] x.t = "None" -> Ok(x)
      [] OTHER -> TypeErr(column_id, "Boolean", x)

ParseJsonArm(x, max_bytes, column_id) ==
    IF x.t = "String"
    THEN IF Len(x.v) > UnwrapOr(max_bytes, 0)
         THEN CheckErr(column_id, "json_max_bytes", <<"<", UnwrapOr(max_bytes, 0)>>,
                       <<"s.len() > *max_bytes: ", Len(x.v)>>)
         ELSE IF ~HasAt(x.v, 1, <<"[">>) /\ ~HasAt(x.v, 1, <<"{">>)
              THEN Ok(VJson(JString(x.v)))
              ELSE Bind(JsonFromStr(x.v), LAMBDA r :
                       IF r.ok THEN Ok(VJson(r.val))
                       ELSE CheckErr(column_id, "json_parse", <<"Valid JSON">>, r.err))
    ELSE Bind(JsonLen(to_json(x)), LAMBDA bytes :
             IF max_bytes.some /\ bytes > max_bytes.v
             THEN CheckErr(column_id, "json_max_bytes", <<"<", max_bytes.v>>,
                           <<"json.len() > *max_bytes: ", bytes>>)
             ELSE Ok(x))

\* The Scalar arm of _parse_value
ParseScalar(x, inner, column_id) ==
    IF x.t = "List" /\ inner.t # "Json"
    THEN Err(SchemaTypeValidationError(column_id, "Scalar", "Array"))
    ELSE CASE inner.t = "Uuid" -> ParseUuidArm(x, column_id)
           [] inner.t = "String" -> ParseStringArm(x, column_id)
           [] inner.t = "Timestamp" -> ParseTimestampArm(x, column_id)
           [] inner.t = "TimestampTz" -> ParseTimestampTzArm(x, column_id)
           [] inner.t = "Interval" -> ParseIntervalArm(x, column_id)
           [] inner.t = "Integer" -> ParseIntegerArm(x, column_id)
           [] inner.t = "Float" -> ParseFloatArm(x, column_id)
           [] inner.t = "BitFlag" -> ParseBitFlagArm(x, inner.values, column_id)
           [] inner.t = "Boolean" -> ParseBooleanArm(x, column_id)
           [] inner.t = "Json" -> ParseJsonArm(x, inner.max_bytes, column_id)

\* Variant of ParseElems that pushes each parsed element at the front.
RECURSIVE ParseElemsFront(_, _, _, _)
ParseElemsFront(l, inner, column_id, values) ==
    IF l = <<>> THEN Ok(VList(values))
    ELSE Bind(ParseScalar(Head(l), inner, column_id), LAMBDA new_v :
             IF new_v.ok
             THEN ParseElemsFront(Tail(l), inner, column_id, <<new_v.val>> \o values)
             ELSE new_v)

\* The loop of the Array arm: the elements are parsed as scalars in order,
\* the first error ends the loop.
RECURSIVE ParseElems(_, _, _, _)
ParseElems(l, inner, column_id, values) ==
    IF l = <<>> THEN Ok(VList(values))
    ELSE Bind(ParseScalar(Head(l), inner, column_id), LAMBDA new_v :
             IF new_v.ok THEN ParseElems(Tail(l), inner, column_id, Append(values, new_v.val))
             ELSE new_v)

\* Variant of _parse_value that wraps a value that is no List into a List
\* of one element.
_parse_value_wrap(x, column_type, column_id) ==
    IF column_type.shape = "Scalar" THEN ParseScalar(x, column_type.inner, column_id)
    ELSE Bind(column_type.inner, LAMBDA inner :
         Bind(IF inner.t = "Json" THEN JsonLen(to_json(x)) ELSE 0, LAMBDA json :
             IF inner.t = "Json" /\ inner.max_bytes.some /\ json > inner.max_bytes.v
             THEN CheckErr(column_id, "json_max_bytes", <<"<", inner.max_bytes.v>>,
                           <<"json.len() > *max_bytes: ", json>>)
             ELSE CASE x.t = "List" -> ParseElems(x.v, inner, column_id, <<>>)
                    [] x.t = "None" -> Ok(x)
                    [] OTHER -> ParseElems(<<x>>, inner, column_id, <<>>)))

\* _parse_value: the match on the shape of the column type
_parse_value(x, column_type, column_id) ==
    IF column_type.shape = "Scalar" THEN ParseScalar(x, column_type.inner, column_id)
    ELSE Bind(column_type.inner, LAMBDA inner :
         \* the size of the whole payload is taken for a Json inner type only
         Bind(IF inner.t = "Json" THEN JsonLen(to_json(x)) ELSE 0, LAMBDA json :
             IF inner.t = "Json" /\ inner.max_bytes.some /\ json > inner.max_bytes.v
             THEN CheckErr(column_id, "json_max_bytes", <<"<", inner.max_bytes.v>>,
                           <<"json.len() > *max_bytes: ", json>>)
             ELSE CASE x.t = "List" -> ParseElems(x.v, inner, column_id, <<>>)
                    [] x.t = "None" -> Ok(x)
                    [] OTHER -> TypeErr(column_id, "Array", x)))

(***************************************************************************)
(* _validate_value (cfg.rs): the checks on a parsed value.                 *)
(***************************************************************************)
SeqContains(q, x) == \E i \in 1..Len(q) : q[i] = x

\* Variant of ValidateStringArm that tests max_length before min_length.
ValidateStringArmMaxFirst(x, inner, column_id, is_nullable) ==
    CASE x.t = "String" ->
            IF inner.max_length.some /\ Len(x.v) > inner.max_length.v
            THEN [returned |-> TRUE,
                  res |-> CheckErr(column_id, "maxlength", <<"<", inner.max_length.v>>,
                                   <<"s.len() > *max">>)]
            ELSE IF inner.min_length.some /\ Len(x.v) < inner.min_length.v
            THEN [returned |-> TRUE,
                  res |-> CheckErr(column_id, "minlength", <<">", inner.min_length.v>>,
                                   <<"s.len() < *min">>)]
            ELSE IF inner.allowed_values # <<>> /\ ~SeqContains(inner.allowed_values, x.v)
            THEN [returned |-> TRUE,
                  res |-> CheckErr(column_id, "allowed_values", inner.allowed_values,
                                   <<"!allowed_values.is_empty() && !allowed_values.contains(&s.as_str())">>)]
            ELSE [returned |-> FALSE, res |-> Ok(x)]
      [] x.t = "None" ->
            IF ~is_nullable
            THEN [returned |-> TRUE, res |-> Err(SchemaNullValueValidationError(column_id))]
            ELSE [returned |-> TRUE, res |-> Ok(x)]
      [] OTHER -> [returned |-> FALSE, res |-> TypeErr(column_id, "String", x)]

\* The String arm of the scalar match.  "returned" tells that the arm
\* returned from the function instead of yielding the value of the match.
ValidateStringArm(x, inner, column_id, is_nullable) ==
    CASE x.t = "String" ->
            IF inner.min_length.some /\ Len(x.v) < inner.min_length.v
            THEN [returned |-> TRUE,
                  res |-> CheckErr(column_id, "minlength", <<">", inner.min_length.v>>,
                                   <<"s.len() < *min">>)]
            ELSE IF inner.max_length.some /\ Len(x.v) > inner.max_length.v
            THEN [returned |-> TRUE,
                  res |-> CheckErr(column_id, "maxlength", <<"<", inner.max_length.v>>,
                                   <<"s.len() > *max">>)]
            ELSE IF inner.allowed_values # <<>> /\ ~SeqContains(inner.allowed_values, x.v)
            THEN [returned |-> TRUE,
                  res |-> CheckErr(column_id, "allowed_values", inner.allowed_values,
                                   <<"!allowed_values.is_empty() && !allowed_values.contains(&s.as_str())">>)]
            ELSE [returned |-> FALSE, res |-> Ok(x)]
      [] x.t = "None" ->
            IF ~is_nullable
            THEN [returned |-> TRUE, res |-> Err(SchemaNullValueValidationError(column_id))]
            ELSE [returned |-> TRUE, res |-> Ok(x)]
      [] OTHER -> [returned |-> FALSE, res |-> TypeErr(column_id, "String", x)]

\* The final null check after the match
ValidateNullCheck(r, column_id, is_nullable) ==
    IF ~r.ok THEN r
    ELSE IF r.val.t = "None" /\ ~is_nullable
         THEN Err(SchemaNullValueValidationError(column_id))
    ELSE r

\* _validate_value on a Scalar column type
ValidateScalar(x, inner, column_id, is_nullable) ==
    IF x.t = "List" /\ inner.t # "Json"
    THEN Err(SchemaTypeValidationError(column_id, "Scalar", "Array"))
    ELSE IF inner.t = "String"
         THEN Bind(ValidateStringArm(x, inner, column_id, is_nullable), LAMBDA a :
                  IF a.returned THEN a.res
                  ELSE ValidateNullCheck(a.res, column_id, is_nullable))
    ELSE ValidateNullCheck(Ok(x), column_id, is_nullable)

\* The loop of the Array arm: each element goes through _validate_value as
\* a scalar, with the same is_nullable; the first error ends the loop.
RECURSIVE ValidateElems(_, _, _, _, _)
ValidateElems(l, inner, column_id, is_nullable, values) ==
    IF l = <<>> THEN Ok(VList(values))
    ELSE Bind(ValidateScalar(Head(l), inner, column_id, is_nullable), LAMBDA new_v :
             IF new_v.ok
             THEN ValidateElems(Tail(l), inner, column_id, is_nullable,
                                Append(values, new_v.val))
             ELSE new_v)

_validate_value(x, column_type, column_id, is_nullable) ==
    IF column_type.shape = "Scalar"
    THEN ValidateScalar(x, column_type.inner, column_id, is_nullable)
    ELSE ValidateNullCheck(
             CASE x.t = "List" ->
                      ValidateElems(x.v, column_type.inner, column_id, is_nullable, <<>>)
               [] x.t = "None" -> Ok(x)
               [] OTHER -> TypeErr(column_id, "Array", x),
             column_id, is_nullable)

\* The parse-then-validate pair that settings_create and settings_update
\* apply to a field.
ParseThenValidate(x, column_type, column_id, is_nullable) ==
    Bind(_parse_value(x, column_type, column_id), LAMBDA parsed_value :
        IF parsed_value.ok
        THEN _validate_value(parsed_value.val, column_type, column_id, is_nullable)
        ELSE parsed_value)

(***************************************************************************)
(* Column, Setting and the CRUD entry points (types.rs, cfg.rs).           *)
(*                                                                         *)
(* A Setting is [primary_key, columns, operations]: operations is the set  *)
(* of OperationTypes whose backend is Some.  The backends are external:    *)
(* what a backend answers is an input of the entry point (reply), and the  *)
(* entry point yields its result together with the backend calls it made.  *)
(***************************************************************************)
Column(id, column_type, nullable, secret, ignored_for) ==
    [id |-> id, column_type |-> column_type, nullable |-> nullable, secret |-> secret,
     ignored_for |-> ignored_for]

Setting(primary_key, columns, operations) ==
    [primary_key |-> primary_key, columns |-> columns, operations |-> operations]

Call(method, arg) == [method |-> method, arg |-> arg]

Outcome(result, calls) == [result |-> result, calls |-> calls]

\* Variant of NotSupported that always reports the View operation.
NotSupportedWrongOp(operation) == Outcome(Err(OperationNotSupported("View")), <<>>)

\* The early return of an entry point whose backend is None.
NotSupported(operation) == Outcome(Err(OperationNotSupported(operation)), <<>>)

\* settings_view, first loop, one column of one row: the value is taken
\* out of the row (None if absent), parsed and reinserted.
ViewParseStep(col, state) ==
    Bind(_parse_value(MapTakeOrNone(state, col.id), col.column_type, col.id), LAMBDA val :
        IF val.ok THEN Ok(MapInsert(MapSwapRemove(state, col.id), col.id, val.val))
        ELSE val)

RECURSIVE ViewParseLoop(_, _)
ViewParseLoop(columns, state) ==
    IF columns = <<>> THEN Ok(state)
    ELSE Bind(ViewParseStep(Head(columns), state), LAMBDA step :
             IF step.ok THEN ViewParseLoop(Tail(columns), step.val) ELSE step)

\* Variant of ViewStripStep that removes the columns ignored for View but
\* leaves the secret ones in the row.
ViewStripStepNoSecret(col, state) ==
    IF "View" \in col.ignored_for THEN MapSwapRemove(state, col.id) ELSE state

\* settings_view, second loop, one column: secret columns and columns
\* ignored for View are removed from the row.
ViewStripStep(col, state) ==
    IF col.secret THEN MapSwapRemove(state, col.id)
    ELSE IF "View" \in col.ignored_for THEN MapSwapRemove(state, col.id)
    ELSE state

RECURSIVE ViewStripLoop(_, _)
ViewStripLoop(columns, state) ==
    IF columns = <<>> THEN state
    ELSE ViewStripLoop(Tail(columns), ViewStripStep(Head(columns), state))

\* Variant of PushRow that puts the row in front of the rows collected so far.
PushRowFront(values, state) == <<state>> \o values

\* values.push(state)
PushRow(values, state) == Append(values, state)

\* settings_view: the loop over the rows the backend returned.
RECURSIVE ViewRowsLoop(_, _, _)
ViewRowsLoop(setting, states, values) ==
    IF states = <<>> THEN Ok(values)
    ELSE Bind(ViewParseLoop(setting.columns, Head(states)), LAMBDA parsed :
             IF parsed.ok
             THEN ViewRowsLoop(setting, Tail(states),
                               PushRow(values, ViewStripLoop(setting.columns, parsed.val)))
             ELSE parsed)

settings_view(setting, filters, reply) ==
    IF "View" \notin setting.operations THEN NotSupported("View")
    ELSE IF ~reply.ok THEN Outcome(reply, <<Call("view", filters)>>)
    ELSE Outcome(ViewRowsLoop(setting, reply.val, <<>>), <<Call("view", filters)>>)

\* Variant of CreateCoerceStep that parses and validates the value but
\* reinserts the value as it was supplied.
CreateCoerceStepRaw(column, state) ==
    Bind(MapTakeOrNone(state, column.id), LAMBDA val :
    Bind(_parse_value(val, column.column_type, column.id), LAMBDA parsed_value :
    Bind(IF parsed_value.ok
         THEN _validate_value(parsed_value.val, column.column_type, column.id,
                              column.nullable)
         ELSE parsed_value, LAMBDA value :
        IF value.ok
        THEN Ok(MapInsert(MapSwapRemove(state, column.id), column.id, val))
        ELSE value)))

\* Variant of CreateCoerceStep that does not reinsert a value that is None.
CreateCoerceStepDropNone(column, state) ==
    Bind(MapTakeOrNone(state, column.id), LAMBDA val :
    Bind(_parse_value(val, column.column_type, column.id), LAMBDA parsed_value :
    Bind(IF parsed_value.ok
         THEN _validate_value(parsed_value.val, column.column_type, column.id,
                              column.nullable)
         ELSE parsed_value, LAMBDA value :
        IF value.ok
        THEN Ok(IF value.val.t = "None" THEN MapSwapRemove(state, column.id)
                ELSE MapInsert(MapSwapRemove(state, column.id), column.id, value.val))
        ELSE value)))

\* settings_create, first loop, one column: the value is taken out of the
\* mapping (None if absent), parsed, validated and reinserted.
CreateCoerceStep(column, state) ==
    Bind(MapTakeOrNone(state, column.id), LAMBDA val :
    Bind(_parse_value(val, column.column_type, column.id), LAMBDA parsed_value :
    Bind(IF parsed_value.ok
         THEN _validate_value(parsed_value.val, column.column_type, column.id,
                              column.nullable)
         ELSE parsed_value, LAMBDA value :
        IF value.ok
        THEN Ok(MapInsert(MapSwapRemove(state, column.id), column.id, value.val))
        ELSE value)))

\* settings_create: the first loop, over the columns not ignored for Create.
RECURSIVE CreateCoerceLoop(_, _)
CreateCoerceLoop(columns, state) ==
    IF columns = <<>> THEN Ok(state)
    ELSE IF "Create" \in Head(columns).ignored_for THEN CreateCoerceLoop(Tail(columns), state)
    ELSE Bind(CreateCoerceStep(Head(columns), state), LAMBDA step :
             IF step.ok THEN CreateCoerceLoop(Tail(columns), step.val) ELSE step)

\* settings_create, second loop, one column: the null check.
CreateNullStep(column, state) ==
    IF ~MapHas(state, column.id)
    THEN Err(Generic(<<"Column not found in state despite just being parsed", column.id>>,
                     "settings_create [ext_checks]", "internal"))
    ELSE IF ~column.nullable /\ MapGet(state, column.id).t = "None"
         THEN Err(MissingOrInvalidField(column.id, "settings_create [null check]"))
    ELSE Ok(state)

\* settings_create: the second loop, over the columns not ignored for Create.
RECURSIVE CreateNullLoop(_, _)
CreateNullLoop(columns, state) ==
    IF columns = <<>> THEN Ok(state)
    ELSE IF "Create" \in Head(columns).ignored_for THEN CreateNullLoop(Tail(columns), state)
    ELSE Bind(CreateNullStep(Head(columns), state), LAMBDA step :
             IF step.ok THEN CreateNullLoop(Tail(columns), state) ELSE step)

\* Variant of CreateStripStep that leaves every column in the mapping.
CreateStripStepKeep(col, state) == state

\* settings_create, third loop, one column: a column ignored for Create is
\* removed from the mapping.
CreateStripStep(col, state) ==
    IF "Create" \in col.ignored_for THEN MapSwapRemove(state, col.id) ELSE state

RECURSIVE CreateStripLoop(_, _)
CreateStripLoop(columns, state) ==
    IF columns = <<>> THEN state
    ELSE CreateStripLoop(Tail(columns), CreateStripStep(Head(columns), state))

\* Variant of settings_create that calls the creator before the columns are
\* validated.
settings_create_call_first(setting, fields, reply) ==
    IF "Create" \notin setting.operations THEN NotSupported("Create")
    ELSE Bind(CreateCoerceLoop(setting.columns, fields), LAMBDA coerced :
         Bind(IF coerced.ok THEN CreateNullLoop(setting.columns, coerced.val) ELSE coerced,
              LAMBDA checked :
             IF ~checked.ok THEN Outcome(checked, <<Call("create", fields)>>)
             ELSE Outcome(reply,
                          <<Call("create", CreateStripLoop(setting.columns, checked.val))>>)))

\* Variant of settings_create that strips the secret and View-ignored columns
\* from the mapping the creator returns.
settings_create_strip_reply(setting, fields, reply) ==
    IF "Create" \notin setting.operations THEN NotSupported("Create")
    ELSE Bind(CreateCoerceLoop(setting.columns, fields), LAMBDA coerced :
         Bind(IF coerced.ok THEN CreateNullLoop(setting.columns, coerced.val) ELSE coerced,
              LAMBDA checked :
             IF ~checked.ok THEN Outcome(checked, <<>>)
             ELSE Outcome(IF reply.ok THEN Ok(ViewStripLoop(setting.columns, reply.val))
                          ELSE reply,
                          <<Call("create", CreateStripLoop(setting.columns, checked.val))>>)))

settings_create(setting, fields, reply) ==
    IF "Create" \notin setting.operations THEN NotSupported("Create")
    ELSE Bind(CreateCoerceLoop(setting.columns, fields), LAMBDA coerced :
         Bind(IF coerced.ok THEN CreateNullLoop(setting.columns, coerced.val) ELSE coerced,
              LAMBDA checked :
             IF ~checked.ok THEN Outcome(checked, <<>>)
             ELSE Outcome(reply,
                          <<Call("create", CreateStripLoop(setting.columns, checked.val))>>)))

\* Variant of UpdateCoerceStep that parses the value and skips its validation.
UpdateCoerceStepNoValidate(column, state) ==
    Bind(_parse_value(MapTakeOrNone(state, column.id), column.column_type, column.id),
         LAMBDA value :
        IF value.ok
        THEN Ok(MapInsert(MapSwapRemove(state, column.id), column.id, value.val))
        ELSE value)

\* settings_update, first loop, one column: the value is taken out of the
\* mapping (None if absent), parsed, validated and reinserted.
UpdateCoerceStep(column, state) ==
    Bind(MapTakeOrNone(state, column.id), LAMBDA val :
    Bind(_parse_value(val, column.column_type, column.id), LAMBDA parsed_value :
    Bind(IF parsed_value.ok
         THEN _validate_value(parsed_value.val, column.column_type, column.id,
                              column.nullable)
         ELSE parsed_value, LAMBDA value :
        IF value.ok
        THEN Ok(MapInsert(MapSwapRemove(state, column.id), column.id, value.val))
        ELSE value)))

\* settings_update: the first loop, over the columns not ignored for Update.
RECURSIVE UpdateCoerceLoop(_, _)
UpdateCoerceLoop(columns, state) ==
    IF columns = <<>> THEN Ok(state)
    ELSE IF "Update" \in Head(columns).ignored_for THEN UpdateCoerceLoop(Tail(columns), state)
    ELSE Bind(UpdateCoerceStep(Head(columns), state), LAMBDA step :
             IF step.ok THEN UpdateCoerceLoop(Tail(columns), step.val) ELSE step)

\* settings_update, second loop, one column: the null check.
UpdateNullStep(column, state) ==
    IF ~MapHas(state, column.id)
    THEN Err(Generic(<<"Column not found in state despite just being parsed", column.id>>,
                     "settings_update [ext_checks]", "internal"))
    ELSE IF ~column.nullable /\ MapGet(state, column.id).t = "None"
         THEN Err(MissingOrInvalidField(column.id, "settings_create [null check]"))
    ELSE Ok(state)

\* settings_update: the second loop, over the columns not ignored for Update.
RECURSIVE UpdateNullLoop(_, _)
UpdateNullLoop(columns, state) ==
    IF columns = <<>> THEN Ok(state)
    ELSE IF "Update" \in Head(columns).ignored_for THEN UpdateNullLoop(Tail(columns), state)
    ELSE Bind(UpdateNullStep(Head(columns), state), LAMBDA step :
             IF step.ok THEN UpdateNullLoop(Tail(columns), state) ELSE step)

\* settings_update, third loop, one column: a column ignored for Update is
\* removed from the mapping.
UpdateStripStep(col, state) ==
    IF "Update" \in col.ignored_for THEN MapSwapRemove(state, col.id) ELSE state

RECURSIVE UpdateStripLoop(_, _)
UpdateStripLoop(columns, state) ==
    IF columns = <<>> THEN state
    ELSE UpdateStripLoop(Tail(columns), UpdateStripStep(Head(columns), state))

\* Variant of settings_update that hands the updater only the keys that are
\* ids of columns.
settings_update_known_only(setting, fields, reply) ==
    IF "Update" \notin setting.operations THEN NotSupported("Update")
    ELSE Bind(UpdateCoerceLoop(setting.columns, fields), LAMBDA coerced :
         Bind(IF coerced.ok THEN UpdateNullLoop(setting.columns, coerced.val) ELSE coerced,
              LAMBDA checked :
             IF ~checked.ok THEN Outcome(checked, <<>>)
             ELSE Outcome(reply,
                          <<Call("update",
                                 SelectSeq(UpdateStripLoop(setting.columns, checked.val),
                                           LAMBDA pair :
                                               \E i \in 1..Len(setting.columns) :
                                                   setting.columns[i].id = pair[1]))>>)))

\* settings_update: the two loops over the columns, the removal of the
\* columns ignored for Update, then the updater.
settings_update(setting, fields, reply) ==
    IF "Update" \notin setting.operations THEN NotSupported("Update")
    ELSE Bind(UpdateCoerceLoop(setting.columns, fields), LAMBDA coerced :
         Bind(IF coerced.ok THEN UpdateNullLoop(setting.columns, coerced.val) ELSE coerced,
              LAMBDA checked :
             IF ~checked.ok THEN Outcome(checked, <<>>)
             ELSE Outcome(reply,
                          <<Call("update", UpdateStripLoop(setting.columns, checked.val))>>)))

\* settings_delete: the key is parsed against the primary-key column and
\* handed to the deleter.
settings_delete(setting, pkey, reply) ==
    IF "Delete" \notin setting.operations THEN NotSupported("Delete")
    ELSE IF ~\E i \in 1..Len(setting.columns) : setting.columns[i].id = setting.primary_key
         THEN Outcome(Err(Generic(<<"Primary key column not found">>,
                                  "settings_update [pkey_column_let_else]", "internal")),
                      <<>>)
    ELSE Bind(setting.columns[CHOOSE j \in 1..Len(setting.columns) :
                  /\ setting.columns[j].id = setting.primary_key
                  /\ \A k \in 1..(j - 1) : setting.columns[k].id # setting.primary_key],
              LAMBDA pkey_column :
         Bind(_parse_value(pkey, pkey_column.column_type, setting.primary_key),
              LAMBDA parsed :
             IF ~parsed.ok THEN Outcome(parsed, <<>>)
             ELSE IF ~reply.ok THEN Outcome(reply, <<Call("delete", parsed.val)>>)
             ELSE Outcome(Ok("unit"), <<Call("delete", parsed.val)>>)))

(***************************************************************************)
(* The settings, inputs and backend replies the model ranges over.         *)
(***************************************************************************)
\* Longest reply of the view backend that is built from RowPool.
MaxRows == 2

Absent == [t |-> "Absent", v |-> 0]

StrX == <<"x">>

Str5 == <<"5">>

\* The mapping with the pairs <<ids[i], f[ids[i]]>>, in order, of the ids
\* that f does not leave absent.
RECURSIVE FieldsOf(_, _)
FieldsOf(ids, f) ==
    IF ids = <<>> THEN <<>>
    ELSE (IF f[Head(ids)] = Absent THEN <<>> ELSE <<<<Head(ids), f[Head(ids)]>>>>)
             \o FieldsOf(Tail(ids), f)

SeqRange(q) == {q[i] : i \in 1..Len(q)}

\* All mappings that give each id a value of vals or leave it out.
Mappings(ids, vals) ==
    {FieldsOf(ids, f) : f \in [SeqRange(ids) -> vals \cup {Absent}]}

CrudTypes ==
    {new_scalar(TString(NoneOpt, NoneOpt, <<>>)), new_scalar(TInteger), new_array(TInteger)}

\* secret and ignored_for of a column, as the schemas of the model set them
Visibilities ==
    {[secret |-> FALSE, ignored_for |-> {}], [secret |-> TRUE, ignored_for |-> {}],
     [secret |-> FALSE, ignored_for |-> {"View"}],
     [secret |-> FALSE, ignored_for |-> {"Create"}],
     [secret |-> FALSE, ignored_for |-> {"Update"}],
     [secret |-> FALSE, ignored_for |-> {"Create", "Update"}]}

ColumnsOf(id) ==
    {Column(id, ct, n, vis.secret, vis.ignored_for) :
        ct \in CrudTypes, n \in BOOLEAN, vis \in Visibilities}

\* The schema of the end-to-end example: id is ignored for Create, name is
\* a required String, count a nullable Integer.
ExampleColumns ==
    <<Column("id", new_scalar(TInteger), FALSE, FALSE, {"Create"}),
      Column("name", new_scalar(TString(NoneOpt, NoneOpt, <<>>)), FALSE, FALSE, {}),
      Column("count", new_scalar(TInteger), TRUE, FALSE, {})>>

Schemas ==
    {<<a, b>> : a \in ColumnsOf("name"), b \in ColumnsOf("count")} \cup {ExampleColumns}

\* SettingOperations as built by to_view_create_op, to_update_delete_op,
\* from and Default
OperationSets == {{"View", "Create"}, {"Update", "Delete"}}

Settings ==
    {Setting(cols[1].id, cols, ops) : cols \in Schemas, ops \in OperationSets}

ColumnIdsOf(setting) == [i \in 1..Len(setting.columns) |-> setting.columns[i].id]

\* The elements of q in order, each once (an IndexMap has each key once)
RECURSIVE Distinct(_, _)
Distinct(q, seen) ==
    IF q = <<>> THEN seen
    ELSE Distinct(Tail(q), IF Head(q) \in SeqRange(seen) THEN seen ELSE Append(seen, Head(q)))

FieldValues ==
    {VNone, VString(StrX), VString(Str5), VString(<<>>), VInteger(5),
     VList(<<VString(Str5)>>)}

\* The input mappings of create and update: any choice of values for the
\* column ids, with or without a key that names no column.
FieldInputs(setting) ==
    LET base == Mappings(Distinct(ColumnIdsOf(setting), <<>>), FieldValues)
    IN  base \cup {<<<<"extra", VString(StrX)>>>> \o m : m \in base}

RowValues == {VNone, VString(StrX), VInteger(5)}

Rows(setting) == Mappings(ColumnIdsOf(setting), RowValues)

\* Rows of the longer replies
RowPool(setting) ==
    {<<>>,
     FieldsOf(ColumnIdsOf(setting), [k \in SeqRange(ColumnIdsOf(setting)) |-> VString(StrX)]),
     <<<<"extra", VInteger(5)>>>>
         \o FieldsOf(ColumnIdsOf(setting), [k \in SeqRange(ColumnIdsOf(setting)) |-> VNone])}

RECURSIVE SeqsOfLen(_, _)
SeqsOfLen(S, n) ==
    IF n = 0 THEN {<<>>} ELSE {Append(q, x) : q \in SeqsOfLen(S, n - 1), x \in S}

ViewReplies(setting) ==
    {Err(Generic(<<"backend">>, "view", "backend"))}
        \cup {Ok(<<r>>) : r \in Rows(setting)}
        \cup {Ok(q) : q \in UNION {SeqsOfLen(RowPool(setting), n) : n \in 0..MaxRows}}

\* A row as a backend hands it back: a server-generated id, and text under
\* the ids of the columns, whatever their type or visibility.
BackendRow == <<<<"id", VInteger(1)>>, <<"name", VString(Str5)>>, <<"count", VString(Str5)>>>>

CreateReplies == {Ok(BackendRow), Err(RowExists("name", 1)), Err(MaximumCountReached(1, 1))}

UpdateReplies == {Ok(BackendRow), Err(RowDoesNotExist("name")), Err(Generic(<<"backend">>, "update", "backend"))}

DeleteReplies == {Ok("unit"), Err(RowDoesNotExist("name"))}

Filters == {<<>>, <<<<"name", VString(StrX)>>>>}

(***************************************************************************)
(* The state machine: a Setting is built, then one entry point is called.  *)
(* The entry points keep no state between calls, so one call from every    *)
(* setting covers every call of every behaviour.                           *)
(***************************************************************************)
VARIABLES setting, op, args, reply, calls, result

vars == <<setting, op, args, reply, calls, result, overflow_checks, total_count, index, collect_stream>>

Init ==
    /\ setting \in Settings
    /\ op = "none"
    /\ args = <<>>
    /\ reply = Ok(<<>>)
    /\ calls = <<>>
    /\ result = Ok(<<>>)
    /\ overflow_checks \in BOOLEAN
    /\ total_count = 0
    /\ index = 0
    /\ collect_stream = "none"

Finish(o, a, r, out) ==
    /\ op' = o
    /\ args' = a
    /\ reply' = r
    /\ calls' = out.calls
    /\ result' = out.result
    /\ UNCHANGED <<setting, overflow_checks, total_count, index, collect_stream>>

SettingsView ==
    /\ op = "none"
    /\ \E filters \in Filters, r \in ViewReplies(setting) :
           Finish("View", filters, r, settings_view(setting, filters, r))

SettingsCreate ==
    /\ op = "none"
    /\ \E fields \in FieldInputs(setting), r \in CreateReplies :
           Finish("Create", fields, r, settings_create(setting, fields, r))

SettingsUpdate ==
    /\ op = "none"
    /\ \E fields \in FieldInputs(setting), r \in UpdateReplies :
           Finish("Update", fields, r, settings_update(setting, fields, r))

SettingsDelete ==
    /\ op = "none"
    /\ \E pkey \in FieldValues, r \in DeleteReplies :
           Finish("Delete", pkey, r, settings_delete(setting, pkey, r))

Next == SettingsView \/ SettingsCreate \/ SettingsUpdate \/ SettingsDelete

Spec == Init /\ [][Next]_vars

(***************************************************************************)
(* Properties of the CRUD entry points.                                    *)
(***************************************************************************)
Columns == SeqRange(setting.columns)

\* The column an error names, whatever its kind
ErrColumn(e) ==
    CASE e.kind = "MissingOrInvalidField" -> e.field
      [] e.kind \in {"SchemaTypeValidationError", "SchemaNullValueValidationError",
                      "SchemaCheckValidationError", "panic"} -> e.column
      [] OTHER -> "-"

BackendReached == calls # <<>>

\* C1: an entry point whose backend is not registered fails with
\* OperationNotSupported carrying its own OperationType, whatever the
\* input, and calls no backend of the Setting.
C1_NotSupported ==
    (op # "none" /\ op \notin setting.operations)
        => (result = Err(OperationNotSupported(op)) /\ calls = <<>>)

C1_Witness ==
    /\ op = "Delete" /\ "Delete" \notin setting.operations
    /\ setting.operations # {}
    /\ args = VInteger(5)
    /\ result = Err(OperationNotSupported("Delete"))

\* C4: when settings_create reaches the backend, the mapping it passes has
\* an entry for every column not ignored for Create: the coerced value of
\* the input field, or None when the field was absent and the column is
\* nullable.
C4_CreateMapping ==
    (op = "Create" /\ BackendReached) =>
        \A c \in Columns :
            "Create" \notin c.ignored_for =>
                /\ MapHas(calls[1].arg, c.id)
                /\ IF MapHas(args, c.id)
                   THEN LET r == ParseThenValidate(MapGet(args, c.id), c.column_type, c.id,
                                                   c.nullable)
                        IN  r.ok /\ MapGet(calls[1].arg, c.id) = r.val
                   ELSE c.nullable /\ MapGet(calls[1].arg, c.id) = VNone

\* The end-to-end example: input {name: "x"} reaches the backend as
\* {name: "x", count: None}.
C4_Witness ==
    /\ op = "Create" /\ BackendReached
    /\ setting.columns = ExampleColumns
    /\ args = <<<<"name", VString(StrX)>>>>
    /\ MapEq(calls[1].arg, <<<<"name", VString(StrX)>>, <<"count", VNone>>>>)

\* Columns that op requires and the input does not have
MissingRequired ==
    {c \in Columns : op \notin c.ignored_for /\ ~c.nullable /\ ~MapHas(args, c.id)}

\* Every field the input does supply for a column taking part in op is valid.
SuppliedFieldsValid ==
    \A c \in Columns :
        (op \notin c.ignored_for /\ MapHas(args, c.id)) =>
            ParseThenValidate(MapGet(args, c.id), c.column_type, c.id, c.nullable).ok

\* C5: create or update with an input that lacks a non-nullable column not
\* ignored for the operation (all supplied fields being valid) fails with
\* MissingOrInvalidField naming that column, and the backend is not called.
C5_MissingField ==
    (op \in {"Create", "Update"} /\ op \in setting.operations
        /\ MissingRequired # {} /\ SuppliedFieldsValid)
        => /\ ~result.ok
           /\ result.err.kind = "MissingOrInvalidField"
           /\ \E c \in MissingRequired : result.err.field = c.id
           /\ calls = <<>>

\* The ids of the columns ignored for Create
IgnoredForCreate == {c.id : c \in {d \in Columns : "Create" \in d.ignored_for}}

\* The mapping without the keys in ids
RECURSIVE MapWithout(_, _)
MapWithout(m, ids) ==
    IF m = <<>> THEN <<>>
    ELSE (IF Head(m)[1] \in ids THEN <<>> ELSE <<Head(m)>>) \o MapWithout(Tail(m), ids)

\* Two outcomes of create or update are the same failure, or the same
\* backend call with the same result.
SameOutcome(a, b) ==
    IF a.calls = <<>>
    THEN b.calls = <<>> /\ a.result = b.result
    ELSE /\ b.calls # <<>>
         /\ MapEq(a.calls[1].arg, b.calls[1].arg)
         /\ a.result = b.result

\* C6: in settings_create a column ignored for Create is never a key of
\* the mapping passed to the backend, and it is neither validated nor
\* required: the call behaves as if the input had no such field.
C6_IgnoredForCreate ==
    op = "Create" =>
        /\ BackendReached => MapKeys(calls[1].arg) \cap IgnoredForCreate = {}
        /\ SameOutcome(Outcome(result, calls),
                       settings_create(setting, MapWithout(args, IgnoredForCreate), reply))

\* A value that the ignored column's type would reject is supplied, and the
\* backend is reached.
C6_Witness ==
    /\ op = "Create" /\ BackendReached
    /\ \E c \in Columns :
          /\ "Create" \in c.ignored_for
          /\ ~c.nullable
          /\ MapHas(args, c.id)
          /\ ~ParseThenValidate(MapGet(args, c.id), c.column_type, c.id, c.nullable).ok

\* Columns that settings_view hides
HiddenInView == {c.id : c \in {d \in Columns : d.secret \/ "View" \in d.ignored_for}}

\* C7: no row returned by a successful settings_view has a key that is the
\* id of a secret column or of a column ignored for View, whatever the
\* backend row held.
C7_ViewStrips ==
    (op = "View" /\ result.ok /\ BackendReached) =>
        \A i \in 1..Len(result.val) : MapKeys(result.val[i]) \cap HiddenInView = {}

\* The backend row holds a value for a secret column and for another
\* column that is returned.
C7_Witness ==
    /\ op = "View" /\ result.ok /\ BackendReached
    /\ Len(result.val) = 1
    /\ \E c \in Columns : c.secret /\ MapHas(reply.val[1], c.id)
                             /\ MapGet(reply.val[1], c.id) = VString(StrX)
    /\ MapKeys(result.val[1]) # {}

\* Columns that are not nullable and for which some backend row has no
\* value or None
NullInRows ==
    {c \in {d \in Columns : ~d.nullable} :
        \E i \in 1..Len(reply.val) : MapTakeOrNone(reply.val[i], c.id) = VNone}

\* Every value the backend rows do hold parses against its column.
RowValuesParse ==
    \A i \in 1..Len(reply.val) : \A c \in Columns :
        _parse_value(MapTakeOrNone(reply.val[i], c.id), c.column_type, c.id).ok

\* C8: settings_view validates each column of each row with the column's
\* nullable flag: a row that omits, or holds None for, a non-nullable
\* column makes the call fail with the null-value error naming that column.
C8_ViewNullCheck ==
    (op = "View" /\ BackendReached /\ reply.ok /\ RowValuesParse /\ NullInRows # {})
        => /\ ~result.ok
           /\ result.err.kind = "SchemaNullValueValidationError"
           /\ \E c \in NullInRows : result.err.column = c.id

\* C9: a successful settings_view returns one row per backend row, in the
\* backend's order: the i-th row returned is what the i-th backend row
\* alone gives.
C9_ViewRowOrder ==
    (op = "View" /\ result.ok /\ BackendReached) =>
        /\ Len(result.val) = Len(reply.val)
        /\ \A i \in 1..Len(reply.val) :
              LET alone == settings_view(setting, args, Ok(<<reply.val[i]>>)).result
              IN  alone.ok /\ alone.val = <<result.val[i]>>

\* Two backend rows that give different rows
C9_Witness ==
    /\ op = "View" /\ result.ok /\ BackendReached
    /\ Len(reply.val) = 2 /\ Len(result.val) = 2
    /\ result.val[1] # result.val[2]
    /\ result.val[1] # <<>>

\* Every column is ignored for Create exactly if it is ignored for Update.
CreateUpdateAlike ==
    \A c \in Columns : ("Create" \in c.ignored_for) <=> ("Update" \in c.ignored_for)

\* Two outcomes fail with the same kind of error on the same column, or
\* pass the same mapping to their backends.
SameEffect(a, b) ==
    IF a.calls = <<>>
    THEN /\ b.calls = <<>>
         /\ ~a.result.ok /\ ~b.result.ok
         /\ a.result.err.kind = b.result.err.kind
         /\ ErrColumn(a.result.err) = ErrColumn(b.result.err)
    ELSE b.calls # <<>> /\ MapEq(a.calls[1].arg, b.calls[1].arg)

BothRegistered == [setting EXCEPT !.operations = {"Create", "Update"}]

\* C10: for a Setting whose columns are ignored for Create and for Update
\* alike, settings_create and settings_update on the same input fail with
\* the same kind of error on the same column, or pass the same mapping to
\* their backends.
C10_UpdateLikeCreate ==
    (op \in {"Create", "Update"} /\ op \in setting.operations /\ CreateUpdateAlike) =>
        /\ SameEffect(settings_create(BothRegistered, args, reply),
                      settings_update(BothRegistered, args, reply))
        /\ op = "Update" =>
              SameEffect(Outcome(result, calls), settings_create(BothRegistered, args, reply))
        /\ op = "Create" =>
              SameEffect(Outcome(result, calls), settings_update(BothRegistered, args, reply))

\* An update that reaches the backend, with a column ignored for both and
\* a field coerced from a String to an Integer
C10_Witness ==
    /\ op = "Update" /\ BackendReached /\ CreateUpdateAlike
    /\ \E c \in Columns : "Update" \in c.ignored_for /\ MapHas(args, c.id)
    /\ \E c \in Columns : /\ MapHas(calls[1].arg, c.id)
                             /\ MapHas(args, c.id)
                             /\ MapGet(args, c.id) = VString(Str5)
                             /\ MapGet(calls[1].arg, c.id) = VInteger(5)

\* The column settings_delete resolves the key against
PkeyColumn == CHOOSE c \in Columns : c.id = setting.primary_key

\* Every validation step of the operation succeeds on its input.
ValidationPasses ==
    IF op = "Delete"
    THEN _parse_value(args, PkeyColumn.column_type, setting.primary_key).ok
    ELSE \A c \in Columns :
             op \notin c.ignored_for =>
                 ParseThenValidate(MapTakeOrNone(args, c.id), c.column_type, c.id,
                                   c.nullable).ok

\* C11: every entry point invokes its backend at most once; create, update
\* and delete invoke it only after every validation step has succeeded, so
\* a call that fails validation makes no backend call.
C11_BackendAtMostOnce ==
    /\ Len(calls) <= 1
    /\ (op \in {"Create", "Update", "Delete"} /\ op \in setting.operations) =>
           (BackendReached <=> ValidationPasses)

C11_Witness ==
    /\ op = "Update" /\ "Update" \in setting.operations
    /\ MapHas(args, "count") /\ MapGet(args, "count") = VString(StrX)
    /\ ~ValidationPasses
    /\ ~result.ok /\ result.err.kind = "SchemaCheckValidationError"
    /\ calls = <<>>

\* C12: once settings_create or settings_update has invoked its backend,
\* the outcome is the backend's outcome: the returned mapping unmodified,
\* or the backend's error unchanged.
C12_BackendOutcome ==
    (op \in {"Create", "Update"} /\ BackendReached) => result = reply

C12_Witness ==
    /\ op = "Create" /\ BackendReached
    /\ reply = Ok(BackendRow) /\ result = Ok(BackendRow)
    /\ \E c \in Columns : c.secret /\ MapHas(result.val, c.id)
    /\ \E c \in Columns : c.column_type = new_scalar(TInteger)
                              /\ MapGet(result.val, c.id) = VString(Str5)

\* C13: settings_delete validates the key against the primary-key column,
\* type and nullability: the deleter gets the validated key, and a key that
\* fails validation gives an error naming the primary key without the
\* deleter being invoked.
C13_DeleteValidatesKey ==
    (op = "Delete" /\ "Delete" \in setting.operations) =>
        IF ParseThenValidate(args, PkeyColumn.column_type, setting.primary_key,
                             PkeyColumn.nullable).ok
        THEN calls = <<Call("delete",
                            ParseThenValidate(args, PkeyColumn.column_type,
                                              setting.primary_key, PkeyColumn.nullable).val)>>
        ELSE /\ ~result.ok
             /\ ErrColumn(result.err) = setting.primary_key
             /\ calls = <<>>

(***************************************************************************)
(* The validation engine on its own: a column is declared, then one value  *)
(* is parsed and validated against it, as create and update do with each   *)
(* field.                                                                  *)
(***************************************************************************)
\* Longest list among the values validated
MaxListLen == 2

SampleUuid == [i \in 1..32 |-> IF i % 2 = 0 THEN "a" ELSE "1"]

SampleTimestamp == [y |-> 2024, mo |-> 2, d |-> 29, h |-> 23, mi |-> 30, s |-> 5]

SampleFlags == <<<<"A", 1>>, <<"B", 2>>>>

\* Declared flags of more than one bit, sharing a bit
CompositeFlags == <<<<"A", 3>>, <<"B", 6>>>>

\* A zero-valued flag declared first
ZeroFlags == <<<<"Z", 0>>, <<"A", 1>>, <<"C", 12>>>>

\* A negative flag: every bit but the lowest
NegativeFlags == <<<<"N", 0 - 2>>, <<"A", 1>>>>

\* Largest magnitude of the Integer inputs
MaxInt == 8

IntInputs == {VInteger(i) : i \in (0 - MaxInt)..MaxInt}

InnerTypes ==
    {TUuid, TString(NoneOpt, NoneOpt, <<>>), TString(Some(2), Some(4), <<>>),
     TString(Some(2), NoneOpt, <<>>), TString(NoneOpt, Some(4), <<>>),
     TString(Some(4), Some(2), <<>>), TString(Some(2), Some(4), <<<<"a", "b">>>>),
     TTimestamp, TTimestampTz, TInterval, TInteger, TFloat, TBitFlag(SampleFlags),
     TBitFlag(CompositeFlags), TBitFlag(ZeroFlags), TBitFlag(NegativeFlags),
     TBitFlag(<<>>), TBoolean, TJson(NoneOpt), TJson(Some(2)), TJson(Some(4)),
     TJson(Some(8))}

ColumnTypes == {new_scalar(i) : i \in InnerTypes} \cup {new_array(i) : i \in InnerTypes}

ValidateSettings ==
    {Setting("col", <<Column("col", ct, n, FALSE, {})>>, {}) :
        ct \in ColumnTypes, n \in BOOLEAN}

ScalarInputs ==
    {VNone, VString(<<>>), VString(StrX), VString(Str5), VString(<<"a", "b">>),
     VString(<<"a", "b", "c", "d", "e">>), VString(<<"t", "r", "u", "e">>),
     VString(<<"1", ".", "5">>), VString(<<"2", "h">>), VString(<<"[", "1", "]">>),
     VString(<<"{">>), VString(UuidToString(SampleUuid)),
     VString(NaiveToString(SampleTimestamp)),
     VInteger(0), VInteger(5), VFloat(FloatNorm(FALSE, 15, 1)), VFloat(FloatNaN),
     VBoolean(TRUE), VUuid(SampleUuid), VTimestamp(SampleTimestamp),
     VTimestampTz(SampleTimestamp), VInterval(60),
     VMap(<<<<<<"a">>, VInteger(1)>>>>),
     \* intervals past the width of the integers and of the duration
     VString(<<"9", "9", "9", "9", "9", "9", "9", "s">>),
     VString(<<"1", "0", "4", "8", "6", "3", "6", "s">>),
     VString(<<"9", "9", "9", "w">>), VString(<<"6", "0", "0", "s">>),
     VInteger(I64Max), VInteger(I64Min)} \cup IntInputs

ListElems ==
    {VNone, VString(StrX), VString(Str5), VString(<<"0">>), VInteger(5), VBoolean(TRUE),
     VFloat(FloatNorm(FALSE, 15, 1))}

ValueInputs ==
    ScalarInputs \cup {VList(q) : q \in UNION {SeqsOfLen(ListElems, n) : n \in 0..MaxListLen}}

InitValidate ==
    /\ setting \in ValidateSettings
    /\ op = "none"
    /\ args = <<>>
    /\ reply = Ok(<<>>)
    /\ calls = <<>>
    /\ result = Ok(<<>>)
    /\ overflow_checks \in BOOLEAN
    /\ total_count = 0
    /\ index = 0
    /\ collect_stream = "none"

\* The column being validated against
TheColumn == setting.columns[1]

ValidateValue ==
    /\ op = "none"
    /\ \E x \in ValueInputs :
           Finish("Validate", x, Ok(<<>>),
                  Outcome(ParseThenValidate(x, TheColumn.column_type, TheColumn.id,
                                            TheColumn.nullable), <<>>))

NextValidate == ValidateValue

SpecValidate == InitValidate /\ [][NextValidate]_vars

\* C2: parsing and validating None against a column that is not nullable
\* fails with the null-value error naming the column, for every column
\* type; no default value is substituted.
C2_NullRejected ==
    (op = "Validate" /\ args = VNone /\ ~TheColumn.nullable)
        => result = Err(SchemaNullValueValidationError(TheColumn.id))

\* C3: parsing and validating None against a nullable column succeeds and
\* returns None, for every column type.
C3_NullAccepted ==
    (op = "Validate" /\ args = VNone /\ TheColumn.nullable) => result = Ok(VNone)

(***************************************************************************)
(* BitFlag columns.                                                        *)
(***************************************************************************)
\* Bit k of the two's complement form of n
BitOf(n, k) == (ToUnsigned(n) \div 2 ^ k) % 2

\* The declared bits wholly set in v
FullySet(values, v) ==
    {values[i][2] : i \in {j \in 1..Len(values) : BitAnd(values[j][2], v) = values[j][2]}}

\* r is the bitwise OR of the integers of S
IsOrOf(r, S) ==
    \A k \in 0..(IntBits - 1) : BitOf(r, k) = 1 <=> \E b \in S : BitOf(b, k) = 1

\* An Integer was coerced against a scalar BitFlag column that declares flags.
BitFlagCase ==
    /\ op = "Validate" /\ args.t = "Integer"
    /\ TheColumn.column_type.shape = "Scalar"
    /\ TheColumn.column_type.inner.t = "BitFlag"
    /\ TheColumn.column_type.inner.values # <<>>

Flags == TheColumn.column_type.inner.values

\* The result is the OR of the declared bits wholly set in the input, or
\* the first declared bit when that OR is 0.
BitFlagResult ==
    /\ result.ok /\ result.val.t = "Integer"
    /\ IF IsOrOf(0, FullySet(Flags, args.v)) THEN result.val.v = Flags[1][2]
       ELSE IsOrOf(result.val.v, FullySet(Flags, args.v))

\* No bit of the input outside the wholly set declared flags is in the result.
NoStrayBits ==
    \A k \in 0..(IntBits - 1) :
        (BitOf(args.v, k) = 1 /\ BitOf(result.val.v, k) = 1)
            => \E b \in FullySet(Flags, args.v) : BitOf(b, k) = 1

\* C14: for a BitFlag column with declared flags and an Integer input, the
\* result is the OR of the declared bits wholly set in the input, the first
\* declared bit when that OR is 0, and in particular no bit of the input
\* that belongs to no wholly set declared flag appears in the result.
C14_BitFlagMask == BitFlagCase => (BitFlagResult /\ NoStrayBits)

\* C14, amended: as C14, the bits of the input being kept out of the result
\* when the result is the OR, not when it is the substituted default.
C14_BitFlagMaskOrDefault ==
    BitFlagCase =>
        /\ BitFlagResult
        /\ ~IsOrOf(0, FullySet(Flags, args.v)) => NoStrayBits

\* values {A: 1, B: 2}: input 5 gives 1.
C14_Witness ==
    /\ BitFlagCase /\ Flags = SampleFlags
    /\ args = VInteger(5) /\ result = Ok(VInteger(1))

\* C15: coercing the result of a BitFlag coercion again yields the same
\* Integer, for every non-empty declared mapping and every Integer input.
C15_BitFlagIdempotent ==
    BitFlagCase =>
        /\ result.ok
        /\ _parse_value(result.val, TheColumn.column_type, TheColumn.id) = result

\* A composite flag substituted as the default, then coerced again.
C15_Witness ==
    /\ BitFlagCase /\ Flags = CompositeFlags
    /\ args = VInteger(1) /\ result = Ok(VInteger(3))
    /\ _parse_value(result.val, TheColumn.column_type, TheColumn.id) = Ok(VInteger(3))

(***************************************************************************)
(* String columns.                                                         *)
(***************************************************************************)
\* A String was validated against a scalar String column with a bound.
StringCase ==
    /\ op = "Validate" /\ args.t = "String"
    /\ TheColumn.column_type.shape = "Scalar"
    /\ TheColumn.column_type.inner.t = "String"
    /\ (TheColumn.column_type.inner.min_length.some
          \/ TheColumn.column_type.inner.max_length.some)

StringType == TheColumn.column_type.inner

TooShort == StringType.min_length.some /\ Len(args.v) < StringType.min_length.v

TooLong == StringType.max_length.some /\ Len(args.v) > StringType.max_length.v

\* The error of a violated bound, the minimum first
BoundError ==
    /\ ~result.ok /\ result.err.kind = "SchemaCheckValidationError"
    /\ result.err.check = (IF TooShort THEN "minlength" ELSE "maxlength")

\* C16: for a String column with min_length and/or max_length, a String s
\* validates to s unchanged iff its length is within the bounds that are
\* present (inclusive); otherwise the error is a SchemaCheckValidationError
\* naming the violated bound, the minimum being tested first.
C16_StringBounds ==
    StringCase =>
        IF ~TooShort /\ ~TooLong THEN result = Ok(args) ELSE BoundError

\* C16, amended: a String within the bounds validates to itself when
\* allowed_values is empty or holds it, and fails the allowed_values check
\* otherwise.
C16_StringBoundsAllowed ==
    StringCase =>
        IF TooShort \/ TooLong THEN BoundError
        ELSE IF StringType.allowed_values = <<>>
                 \/ \E i \in 1..Len(StringType.allowed_values) :
                        StringType.allowed_values[i] = args.v
             THEN result = Ok(args)
        ELSE /\ ~result.ok /\ result.err.kind = "SchemaCheckValidationError"
             /\ result.err.check = "allowed_values"

\* min_length 4 above max_length 2: a string of length 3 breaks both bounds
\* and the error names the minimum.
C16_Witness ==
    /\ StringCase /\ TooShort /\ TooLong
    /\ ~result.ok /\ result.err.check = "minlength"

(***************************************************************************)
(* Array columns.                                                          *)
(***************************************************************************)
\* A List was validated against an Array column.
ListCase ==
    /\ op = "Validate" /\ args.t = "List"
    /\ TheColumn.column_type.shape = "Array"

\* Element i of the list taken alone against Scalar{inner}: parsed, and
\* parsed then validated with the column's id and nullable flag.
ElemParsed(i) == _parse_value(args.v[i], new_scalar(TheColumn.column_type.inner), TheColumn.id)

ElemValidated(i) ==
    ParseThenValidate(args.v[i], new_scalar(TheColumn.column_type.inner),
                      TheColumn.id, TheColumn.nullable)

\* Least member of a non-empty set of indices
First(S) == CHOOSE i \in S : \A j \in S : i <= j

FailingElems == {i \in 1..Len(args.v) : ~ElemValidated(i).ok}

UnparsedElems == {i \in 1..Len(args.v) : ~ElemParsed(i).ok}

AllValidated == Ok(VList([i \in 1..Len(args.v) |-> ElemValidated(i).val]))

\* The whole list, as JSON text, is larger than the max_bytes of a Json inner type.
WholeTooLarge ==
    /\ TheColumn.column_type.inner.t = "Json"
    /\ TheColumn.column_type.inner.max_bytes.some
    /\ JsonLen(to_json(args)) > TheColumn.column_type.inner.max_bytes.v

\* C17: a List validated against Array{inner} has each element validated
\* alone as Scalar{inner} with the same column id and nullable flag; the
\* result is the List of the validated elements in order, and the whole
\* fails iff some element fails, with the error of the first failing
\* element, which names the array's column id.
C17_ArrayElementwise ==
    ListCase =>
        IF FailingElems = {} THEN result = AllValidated
        ELSE /\ result = ElemValidated(First(FailingElems))
             /\ ErrColumn(result.err) = TheColumn.id

\* C17, amended: the whole list is first measured against the max_bytes of
\* a Json inner type; then every element is parsed, the first element that
\* does not parse giving the error; then every parsed element is validated,
\* the first element that does not validate giving the error.
C17_ArrayParseThenValidate ==
    ListCase =>
        IF WholeTooLarge
        THEN /\ ~result.ok /\ result.err.kind = "SchemaCheckValidationError"
             /\ result.err.check = "json_max_bytes" /\ result.err.column = TheColumn.id
        ELSE IF UnparsedElems # {}
        THEN /\ result = ElemParsed(First(UnparsedElems))
             /\ ErrColumn(result.err) = TheColumn.id
        ELSE IF FailingElems # {}
        THEN /\ result = ElemValidated(First(FailingElems))
             /\ ErrColumn(result.err) = TheColumn.id
        ELSE result = AllValidated

\* Two distinct elements kept in order, the second one coerced.
C17_Witness ==
    /\ ListCase /\ TheColumn.column_type.inner.t = "Integer"
    /\ args = VList(<<VInteger(5), VString(<<"0">>)>>)
    /\ result = Ok(VList(<<VInteger(5), VInteger(0)>>))

\* The elements that are non-empty Strings not representing an integer
NonIntegerStrings ==
    {i \in 1..Len(args.v) :
        /\ args.v[i].t = "String" /\ args.v[i].v # <<>>
        /\ ~ParseI64(args.v[i].v).ok}

\* A List holding a String that is no integer was validated against
\* Array{Integer}.
NonIntegerCase ==
    /\ ListCase /\ TheColumn.column_type.inner.t = "Integer"
    /\ NonIntegerStrings # {}

\* C18: a list holding a String element that does not represent an integer,
\* validated against Array{Integer}, fails with a SchemaTypeValidationError
\* that names the array's column id.
C18_NonIntegerTypeError ==
    NonIntegerCase =>
        /\ ~result.ok /\ result.err.kind = "SchemaTypeValidationError"
        /\ result.err.column = TheColumn.id

\* C18, amended: the validation fails with an error naming the array's
\* column id; the error is the SchemaCheckValidationError of the integer
\* parser when the String is the first element that does not parse, and
\* the type mismatch of an earlier element of a wrong type otherwise.
C18_NonIntegerParseError ==
    NonIntegerCase =>
        /\ ~result.ok /\ ErrColumn(result.err) = TheColumn.id
        /\ IF First(UnparsedElems) \in NonIntegerStrings
           THEN /\ result.err.kind = "SchemaCheckValidationError"
                /\ result.err.check = "integer_parse"
           ELSE result.err.kind = "SchemaTypeValidationError"

\* [5, "x"] against Array{Integer}
C18_Witness ==
    /\ NonIntegerCase /\ args = VList(<<VInteger(5), VString(StrX)>>)
    /\ ~result.ok /\ result.err.kind = "SchemaCheckValidationError"
    /\ result.err.check = "integer_parse" /\ result.err.column = TheColumn.id

(***************************************************************************)
(* Shape of the value against the shape of the column.                     *)
(***************************************************************************)
\* A value that is neither a List nor None was validated against an Array
\* column.
ScalarAgainstArray ==
    /\ op = "Validate" /\ args.t \notin {"List", "None"}
    /\ TheColumn.column_type.shape = "Array"

\* A List was validated against a Scalar column.
ListAgainstScalar ==
    /\ op = "Validate" /\ args.t = "List"
    /\ TheColumn.column_type.shape = "Scalar"

TypeMismatch == ~result.ok /\ result.err.kind = "SchemaTypeValidationError"

SizeError ==
    /\ ~result.ok /\ result.err.kind = "SchemaCheckValidationError"
    /\ result.err.check = "json_max_bytes"

\* C19: a value that is neither a List nor None fails against an Array
\* column with a SchemaTypeValidationError; a List fails against a Scalar
\* column with a SchemaTypeValidationError unless the inner type is Json,
\* and then the list is accepted as the value.
C19_ShapeAgrees ==
    /\ ScalarAgainstArray => TypeMismatch
    /\ ListAgainstScalar =>
          IF TheColumn.column_type.inner.t # "Json" THEN TypeMismatch
          ELSE result = Ok(args)

\* C19, amended: as C19, but with a Json inner type that has max_bytes the
\* JSON text of the value is measured first, and a value larger than
\* max_bytes fails with the json_max_bytes check error.
C19_ShapeAgreesWithinSize ==
    /\ ScalarAgainstArray =>
          IF WholeTooLarge THEN SizeError ELSE TypeMismatch
    /\ ListAgainstScalar =>
          IF TheColumn.column_type.inner.t # "Json" THEN TypeMismatch
          ELSE IF WholeTooLarge THEN SizeError
          ELSE result = Ok(args)

\* A list of two elements taken whole by a scalar Json column.
C19_Witness ==
    /\ ListAgainstScalar /\ TheColumn.column_type.inner.t = "Json"
    /\ Len(args.v) = 2 /\ result = Ok(args)

(***************************************************************************)
(* Integer and Float columns.                                              *)
(***************************************************************************)
\* The validated value, or each of its elements for an Array column, has
\* one of the tags ts.
ResultTagged(ts) ==
    IF TheColumn.column_type.shape = "Scalar" THEN result.val.t \in ts
    ELSE \/ result.val.t = "None"
         \/ /\ result.val.t = "List"
            /\ \A i \in 1..Len(result.val.v) : result.val.v[i].t \in ts

\* A value of the tag given was validated against a scalar column of the
\* inner type given.
ScalarCase(tag, inner) ==
    /\ op = "Validate" /\ args.t = tag
    /\ TheColumn.column_type = new_scalar(inner)

\* C20: a Float against an Integer column and an Integer against a Float
\* column fail with a SchemaTypeValidationError; what an Integer column
\* yields is an Integer or None, what a Float column yields a Float or None.
C20_NoInterconversion ==
    /\ ScalarCase("Float", TInteger) => TypeMismatch
    /\ ScalarCase("Integer", TFloat) => TypeMismatch
    /\ (op = "Validate" /\ result.ok /\ TheColumn.column_type.inner = TInteger)
          => ResultTagged({"Integer", "None"})
    /\ (op = "Validate" /\ result.ok /\ TheColumn.column_type.inner = TFloat)
          => ResultTagged({"Float", "None"})

\* The Integer 5 against a Float column
C20_Witness ==
    /\ ScalarCase("Integer", TFloat) /\ args = VInteger(5)
    /\ result = Err(SchemaTypeValidationError(TheColumn.id, "Float", "Integer"))

(***************************************************************************)
(* Json columns.                                                           *)
(***************************************************************************)
JsonType == TheColumn.column_type.inner

\* A String that does not open a JSON array or object was validated
\* against a scalar Json column.
PlainStringCase ==
    /\ op = "Validate" /\ args.t = "String"
    /\ TheColumn.column_type.shape = "Scalar" /\ JsonType.t = "Json"
    /\ ~HasAt(args.v, 1, <<"[">>) /\ ~HasAt(args.v, 1, <<"{">>)

\* C21: a String that starts with neither "[" nor "{", validated against a
\* Json column without max_bytes, succeeds with that string as the JSON
\* string value, whatever its length.
C21_JsonPassthrough ==
    (PlainStringCase /\ ~JsonType.max_bytes.some)
        => result = Ok(VJson(JString(args.v)))

\* A value was validated against a scalar Json column.
JsonCase ==
    /\ op = "Validate"
    /\ TheColumn.column_type.shape = "Scalar" /\ JsonType.t = "Json"

\* A String input that opens a JSON array or object
OpensJson == HasAt(args.v, 1, <<"[">>) \/ HasAt(args.v, 1, <<"{">>)

\* The input has a JSON result: every input but a String that opens an
\* array or object and is no JSON text.
HasJsonResult == args.t = "String" /\ OpensJson => JsonFromStr(args.v).ok

\* The parsed-or-passthrough JSON result of the input
JsonResult ==
    IF args.t = "String"
    THEN IF OpensJson THEN JsonFromStr(args.v).val ELSE JString(args.v)
    ELSE to_json(args)

\* C22: with max_bytes = Some(n) the validation fails with the
\* json_max_bytes check error iff the serialized JSON result is longer than
\* n bytes, a length of exactly n being accepted; without max_bytes no
\* size limit applies; String and other inputs are treated alike.
C22_JsonMaxBytes ==
    (JsonCase /\ HasJsonResult) =>
        (SizeError <=> (/\ JsonType.max_bytes.some
                        /\ JsonLen(JsonResult) > JsonType.max_bytes.v))

(***************************************************************************)
(* Panics.                                                                 *)
(***************************************************************************)
\* C23: parsing and validating never panics: for every value and every
\* column type the outcome is Ok or a SettingsError, also for an Interval
\* column given digits past 64 bits or an Integer of seconds outside the
\* range of a duration.
C23_NoPanic ==
    op = "Validate" => (result.ok \/ result.err.kind # "panic")

(***************************************************************************)
(* The conversions of Value (value.rs): a Value is drawn, then converted.  *)
(***************************************************************************)
\* Values holding a Float that is not finite, alone or nested
NonFiniteInputs ==
    {VFloat(FloatInf(FALSE)), VFloat(FloatInf(TRUE)),
     VList(<<VInteger(1), VFloat(FloatNaN)>>),
     VMap(<<<<<<"a">>, VFloat(FloatInf(TRUE))>>, <<<<"b">>, VInteger(1)>>>>),
     VList(<<VMap(<<<<<<"a">>, VList(<<VFloat(FloatNaN)>>)>>>>)>>)}

JsonInputs == ValueInputs \cup NonFiniteInputs

InitValue ==
    /\ setting = Setting("-", <<>>, {})
    /\ op = "none"
    /\ args = <<>>
    /\ reply = Ok(<<>>)
    /\ calls = <<>>
    /\ result = Ok(<<>>)
    /\ overflow_checks \in BOOLEAN
    /\ total_count = 0
    /\ index = 0
    /\ collect_stream = "none"

\* Value::to_json applied to a value
ToJson ==
    /\ op = "none"
    /\ \E x \in JsonInputs : Finish("ToJson", x, Ok(<<>>), Outcome(to_json(x), <<>>))

NextValue == ToJson

SpecValue == InitValue /\ [][NextValue]_vars

\* The JSON value j, made from the value x, has a number where x has a
\* Float that is not finite.
RECURSIVE NonFiniteAsNumber(_, _)
NonFiniteAsNumber(x, j) ==
    CASE x.t = "Float" -> ~FloatIsFinite(x.v) /\ j.j \in {"Int", "Float"}
      [] x.t = "List" ->
            j.j = "Array" /\ \E i \in 1..Len(x.v) : NonFiniteAsNumber(x.v[i], j.v[i])
      [] x.t = "Map" ->
            /\ j.j = "Object"
            /\ \E i \in 1..Len(x.v), k \in 1..Len(j.v) :
                   j.v[k][1] = x.v[i][1] /\ NonFiniteAsNumber(x.v[i][2], j.v[k][2])
      [] OTHER -> FALSE

\* C24: the JSON form of a value never has a number in the place of a
\* Float that is NaN or infinite, also inside a List or a Map: such a Float
\* is a data error.
C24_NonFiniteIsError ==
    op = "ToJson" => ~NonFiniteAsNumber(args, result)

(***************************************************************************)
(* settings_create and settings_update on any Setting that can be built,   *)
(* two columns of one id included: nothing in the construction of a        *)
(* Setting keeps the ids of its columns apart.                             *)
(***************************************************************************)
DuplicateSchemas == {<<a, b>> : a \in ColumnsOf("name"), b \in ColumnsOf("name")}

AnySettings ==
    Settings \cup {Setting("name", cols, ops) : cols \in DuplicateSchemas, ops \in OperationSets}

InitAny ==
    /\ setting \in AnySettings
    /\ op = "none"
    /\ args = <<>>
    /\ reply = Ok(<<>>)
    /\ calls = <<>>
    /\ result = Ok(<<>>)
    /\ overflow_checks \in BOOLEAN
    /\ total_count = 0
    /\ index = 0
    /\ collect_stream = "none"

NextAny == SettingsCreate \/ SettingsUpdate

SpecAny == InitAny /\ [][NextAny]_vars

\* C25: settings_create and settings_update never return the Generic
\* error of their own: every column not ignored is in the mapping when
\* the second loop reads it, also when two columns have one id.  A
\* Generic error returned is the one the backend gave.
C25_NoInternalError ==
    (op \in {"Create", "Update"} /\ ~result.ok /\ result.err.kind = "Generic")
        => (BackendReached /\ result = reply)

\* Two columns of one id and of different types, the value passing both.
C25_Witness ==
    /\ op = "Create" /\ BackendReached
    /\ setting.columns[1].id = setting.columns[2].id
    /\ setting.columns[1].column_type = new_scalar(TString(NoneOpt, NoneOpt, <<>>))
    /\ setting.columns[2].column_type = new_scalar(TInteger)
    /\ setting.columns[1].ignored_for = {} /\ setting.columns[2].ignored_for = {}
    /\ MapGet(args, "name") = VString(Str5)
    /\ MapGet(calls[1].arg, "name") = VInteger(5)

(***************************************************************************)
(* The empty String given to an Integer column, in create and update.      *)
(***************************************************************************)
\* The columns before column i that are not ignored for the operation all
\* accept what the input gives them.
EarlierPass(i) ==
    \A j \in 1..(i - 1) :
        op \notin setting.columns[j].ignored_for =>
            ParseThenValidate(MapTakeOrNone(args, setting.columns[j].id),
                              setting.columns[j].column_type, setting.columns[j].id,
                              setting.columns[j].nullable).ok

\* Column i is a scalar Integer column that create or update, called with
\* its backend registered, reaches with the String s as its input.
IntegerGiven(i, s) ==
    /\ op \in {"Create", "Update"} /\ op \in setting.operations
    /\ setting.columns[i].column_type = new_scalar(TInteger)
    /\ op \notin setting.columns[i].ignored_for
    /\ MapHas(args, setting.columns[i].id)
    /\ MapGet(args, setting.columns[i].id) = VString(s)
    /\ EarlierPass(i)

\* C26: the empty String given to an Integer column is coerced to None:
\* in create and update a nullable column passes it on as None, a column
\* that is not nullable fails with the null-value error; a non-empty
\* String that is no base-10 signed integer of 64 bits fails with the
\* integer_parse check error.
C26_EmptyStringIsNone ==
    \A i \in 1..Len(setting.columns) :
        /\ IntegerGiven(i, <<>>) =>
              IF setting.columns[i].nullable
              THEN /\ result.ok \/ ErrColumn(result.err) # setting.columns[i].id
                   /\ BackendReached => MapGet(calls[1].arg, setting.columns[i].id) = VNone
              ELSE /\ result = Err(SchemaNullValueValidationError(setting.columns[i].id))
                   /\ calls = <<>>
        /\ IntegerGiven(i, StrX) =>
              /\ ~result.ok /\ result.err.kind = "SchemaCheckValidationError"
              /\ result.err.check = "integer_parse"
              /\ result.err.column = setting.columns[i].id
              /\ calls = <<>>

\* The empty String reaching the backend as None
C26_Witness ==
    /\ IntegerGiven(2, <<>>) /\ setting.columns[2].nullable
    /\ op = "Update" /\ BackendReached
    /\ MapGet(calls[1].arg, setting.columns[2].id) = VNone

(***************************************************************************)
(* Coercion of a coerced value.                                            *)
(***************************************************************************)
\* What _parse_value alone makes of the input
Parsed == _parse_value(args, TheColumn.column_type, TheColumn.id)

\* C27: for every column type whose inner type is not Json, a value that
\* _parse_value yields is yielded again, unchanged, when _parse_value is
\* given it.
C27_ParseIdempotent ==
    (op = "Validate" /\ TheColumn.column_type.inner.t # "Json" /\ Parsed.ok)
        => _parse_value(Parsed.val, TheColumn.column_type, TheColumn.id) = Parsed

\* An Integer of seconds made an Interval, the Interval then taken as it is
C27_Witness ==
    /\ op = "Validate" /\ TheColumn.column_type = new_scalar(TInterval)
    /\ args = VInteger(5) /\ Parsed = Ok(VInterval(5))
    /\ _parse_value(VInterval(5), TheColumn.column_type, TheColumn.id) = Ok(VInterval(5))

(***************************************************************************)
(* The keys handed to the backend by create and update.                    *)
(***************************************************************************)
ColumnIds == {c.id : c \in Columns}

\* C28: the mapping create and update hand to the backend has exactly the
\* ids of the columns not ignored for the operation and the input keys
\* that name no column, the latter with the values of the input.
C28_ExtraKeysPassed ==
    (op \in {"Create", "Update"} /\ BackendReached) =>
        /\ MapKeys(calls[1].arg)
               = {c.id : c \in {d \in Columns : op \notin d.ignored_for}}
                     \cup (MapKeys(args) \ ColumnIds)
        /\ \A k \in MapKeys(args) \ ColumnIds :
               MapGet(calls[1].arg, k) = MapGet(args, k)

\* A key naming no column handed on, next to a column ignored for Update
\* that was supplied and removed.
C28_Witness ==
    /\ op = "Update" /\ BackendReached
    /\ MapHas(args, "extra") /\ MapHas(calls[1].arg, "extra")
    /\ MapGet(calls[1].arg, "extra") = VString(StrX)
    /\ \E c \in Columns :
           "Update" \in c.ignored_for /\ MapHas(args, c.id) /\ ~MapHas(calls[1].arg, c.id)

(***************************************************************************)
(* The Update subcommand (serenity/autogen.rs): the entry read from the    *)
(* interaction is autofilled from the rows settings_view returns, then     *)
(* handed to settings_updater or settings_creator.  The columns carry the  *)
(* primary_key flag that autogen.rs reads.                                 *)
(***************************************************************************)
Message(text) == [kind |-> "Message", message |-> text]

\* The inner loop "for (pkey_key, pkey_value) in pkey_state.iter()" over one
\* viewed row: TRUE when control reaches the statements after the loop.
\* Each "continue" of its body goes on with the next pair of pkey_state.
RECURSIVE PkeyLoop(_, _)
PkeyLoop(pkey_state, value) ==
    IF pkey_state = <<>> THEN TRUE
    ELSE IF MapHas(value, Head(pkey_state)[1])
         THEN IF MapGet(value, Head(pkey_state)[1]) # Head(pkey_state)[2]
              THEN PkeyLoop(Tail(pkey_state), value)
              ELSE PkeyLoop(Tail(pkey_state), value)
    ELSE PkeyLoop(Tail(pkey_state), value)

\* "for (key, value) in value": the pairs of the row whose key the entry
\* does not have are inserted.
RECURSIVE AutofillRow(_, _)
AutofillRow(entry, value) ==
    IF value = <<>> THEN entry
    ELSE AutofillRow(IF MapHas(entry, Head(value)[1]) THEN entry
                     ELSE MapInsert(entry, Head(value)[1], Head(value)[2]),
                     Tail(value))

\* "for value in values": the first row after whose inner loop control goes
\* on is used, and ends the loop.
RECURSIVE AutofillLoop(_, _, _)
AutofillLoop(values, pkey_state, entry) ==
    IF values = <<>> THEN [have_found_for_autofill |-> FALSE, entry |-> entry]
    ELSE IF PkeyLoop(pkey_state, Head(values))
         THEN [have_found_for_autofill |-> TRUE, entry |-> AutofillRow(entry, Head(values))]
    ELSE AutofillLoop(Tail(values), pkey_state, entry)

\* The primary-key columns in order, and the first of them the entry lacks
PkeyColumns(config_option) == SelectSeq(config_option.columns, LAMBDA c : c.primary_key)

MissingPkeys(config_option, entry) ==
    SelectSeq(PkeyColumns(config_option), LAMBDA c : ~MapHas(entry, c.id))

PkeyState(config_option, entry) ==
    [i \in 1..Len(PkeyColumns(config_option)) |->
        <<PkeyColumns(config_option)[i].id, MapGet(entry, PkeyColumns(config_option)[i].id)>>]

\* The end of the Update arm: the create path when nothing was found
Dispatch(found, made) ==
    Outcome(Ok("dispatched"),
            Append(made, Call(IF found.have_found_for_autofill THEN "settings_updater"
                               ELSE "settings_creator", found.entry)))

\* subcommand_command, the OperationType::Update arm, from the entry that
\* getvalues returned; answer is what the view backend answers.
subcommand_command_update(config_option, entry, answer) ==
    IF "View" \notin config_option.operations
    THEN Dispatch([have_found_for_autofill |-> FALSE, entry |-> entry], <<>>)
    ELSE IF MissingPkeys(config_option, entry) # <<>>
    THEN Outcome(Err(Message(<<"An input for is required",
                               MissingPkeys(config_option, entry)[1].id>>)), <<>>)
    ELSE Bind(settings_view(config_option, <<>>, answer), LAMBDA values :
             IF ~values.result.ok
             THEN Outcome(Err(Message(<<"Error fetching settings for autofill",
                                        values.result.err>>)), values.calls)
             ELSE Dispatch(AutofillLoop(values.result.val, PkeyState(config_option, entry),
                                        entry),
                           values.calls))

\* The example columns with the primary_key flag on the columns of pk
FlaggedColumns(pk) ==
    [i \in 1..Len(ExampleColumns) |->
        [id |-> ExampleColumns[i].id, column_type |-> ExampleColumns[i].column_type,
         nullable |-> ExampleColumns[i].nullable, secret |-> ExampleColumns[i].secret,
         ignored_for |-> ExampleColumns[i].ignored_for,
         primary_key |-> ExampleColumns[i].id \in pk]]

AutofillSettings ==
    {Setting("id", FlaggedColumns(pk), ops) :
        pk \in {{"id"}, {"id", "name"}},
        ops \in {{"View", "Create", "Update", "Delete"}, {"Update", "Delete"}}}

\* The entries getvalues can return: a value or nothing under each column id
Entries ==
    {FieldsOf(<<"id", "name", "count">>, f) :
        f \in {g \in [{"id", "name", "count"} ->
                         {Absent, VInteger(1), VInteger(5), VString(StrX), VString(Str5)}] :
                  /\ g["id"] \in {Absent, VInteger(1), VInteger(5)}
                  /\ g["name"] \in {Absent, VString(StrX), VString(Str5)}
                  /\ g["count"] \in {Absent, VInteger(1)}}}

StoredRows ==
    {<<<<"id", VInteger(1)>>, <<"name", VString(StrX)>>, <<"count", VInteger(5)>>>>,
     <<<<"id", VInteger(5)>>, <<"name", VString(Str5)>>, <<"count", VNone>>>>,
     <<<<"id", VInteger(5)>>, <<"name", VString(StrX)>>, <<"count", VInteger(1)>>>>}

AutofillReplies ==
    {Err(Generic(<<"backend">>, "view", "backend"))}
        \cup {Ok(q) : q \in UNION {SeqsOfLen(StoredRows, n) : n \in 0..MaxRows}}

InitAutofill ==
    /\ setting \in AutofillSettings
    /\ op = "none"
    /\ args = <<>>
    /\ reply = Ok(<<>>)
    /\ calls = <<>>
    /\ result = Ok(<<>>)
    /\ overflow_checks \in BOOLEAN
    /\ total_count = 0
    /\ index = 0
    /\ collect_stream = "none"

UpdateSubcommand ==
    /\ op = "none"
    /\ \E entry \in Entries, r \in AutofillReplies :
           Finish("UpdateSubcommand", entry, r, subcommand_command_update(setting, entry, r))

NextAutofill == UpdateSubcommand

SpecAutofill == InitAutofill /\ [][NextAutofill]_vars

\* The entry was handed to settings_updater or settings_creator.
Dispatched ==
    /\ op = "UpdateSubcommand" /\ calls # <<>>
    /\ calls[Len(calls)].method \in {"settings_updater", "settings_creator"}

Handed == calls[Len(calls)]

\* The rows viewed: those settings_view returned, none without a view backend
Viewed == IF "View" \in setting.operations THEN settings_view(setting, <<>>, reply).result.val
          ELSE <<>>

\* The row has, under every primary-key column, the value of the entry.
RowMatches(row) ==
    \A c \in SeqRange(setting.columns) :
        c.primary_key => (MapHas(row, c.id) /\ MapGet(row, c.id) = MapGet(args, c.id))

\* The mapping handed on is the entry with the missing keys taken from row.
FilledFrom(row) ==
    /\ MapKeys(Handed.arg) = MapKeys(args) \cup MapKeys(row)
    /\ \A k \in MapKeys(row) \ MapKeys(args) : MapGet(Handed.arg, k) = MapGet(row, k)

\* C29: the Update subcommand autofills the missing fields only from a
\* viewed row that has the entry's value under every primary-key column;
\* when no viewed row matches, nothing is autofilled and the entry goes to
\* the create path; a field the user supplied is never overwritten.
C29_AutofillMatchesKey ==
    Dispatched =>
        /\ \A k \in MapKeys(args) : MapGet(Handed.arg, k) = MapGet(args, k)
        /\ IF \E i \in 1..Len(Viewed) : RowMatches(Viewed[i])
           THEN /\ Handed.method = "settings_updater"
                /\ \E i \in 1..Len(Viewed) : RowMatches(Viewed[i]) /\ FilledFrom(Viewed[i])
           ELSE /\ Handed.method = "settings_creator"
                /\ Handed.arg = args

(***************************************************************************)
(* settings_viewer (serenity/ui.rs): the rows of a view are shown one per  *)
(* page; the buttons of the message move between the pages.                *)
(***************************************************************************)
\* How many button presses one run of the viewer follows
MaxEvents == 4

\* How many rows the view backend answers with at most
MaxPages == 3

\* custom_id of a component interaction: the four buttons and any other id
ItemIds == {"previous", "next", "first", "close", "other"}

\* index.saturating_sub(1) on usize
saturating_sub(i, n) == IF i < n THEN 0 ELSE i - n

\* usize::min
usize_min(a, b) == IF a < b THEN a ELSE b

\* Variant of the match: "next" moves on without regard to the last page
ItemIndexPastEnd(item_id, i, total) ==
    CASE item_id = "previous" -> saturating_sub(i, 1)
      [] item_id = "next" -> i + 1
      [] item_id = "first" -> 0
      [] OTHER -> i

\* The match on item_id of the loop body: the page after the press
ItemIndex(item_id, i, total) ==
    CASE item_id = "previous" -> saturating_sub(i, 1)
      [] item_id = "next" -> usize_min(i + 1, total - 1)
      [] item_id = "first" -> 0
      [] OTHER -> i

\* "if index > total_count { index = total_count - 1 }"
ClampIndex(i, total) == IF i > total THEN total - 1 ELSE i

\* create_embed followed by the request that carries the embed
Render(made, request, i) ==
    made \o <<Call("create_embed", i), Call(request, i)>>

ViewerReplies ==
    {Err(Generic(<<"backend">>, "view", "backend"))}
        \cup {Ok(q) : q \in UNION {SeqsOfLen(StoredRows, n) : n \in 0..MaxPages}}

InitViewer ==
    /\ setting \in AutofillSettings
    /\ op = "none"
    /\ args = <<>>
    /\ reply = Ok(<<>>)
    /\ calls = <<>>
    /\ result = Ok(<<>>)
    /\ overflow_checks \in BOOLEAN
    /\ total_count = 0
    /\ index = 0
    /\ collect_stream = "none"

\* settings_viewer up to the loop: the view, and the initial response
ViewerStart ==
    /\ op = "none"
    /\ \E r \in ViewerReplies, sent \in BOOLEAN :
         /\ op' = "settings_viewer"
         /\ args' = <<>>
         /\ reply' = r
         /\ index' = 0
         /\ IF "View" \notin setting.operations
            THEN /\ result' = Err(Message(<<"Unsupported operation (View) for setting">>))
                 /\ calls' = <<>>
                 /\ total_count' = 0
                 /\ collect_stream' = "ended"
            ELSE Bind(settings_view(setting, <<>>, r), LAMBDA values :
                   IF ~values.result.ok
                   THEN /\ result' = Err(Message(<<"Error fetching settings",
                                                   values.result.err>>))
                        /\ calls' = values.calls
                        /\ total_count' = 0
                        /\ collect_stream' = "ended"
                   ELSE IF values.result.val = <<>>
                   THEN /\ result' = Ok(<<>>)
                        /\ calls' = values.calls
                        /\ total_count' = 0
                        /\ collect_stream' = "ended"
                   ELSE /\ calls' = Render(values.calls, "send_initial_response", 0)
                        /\ total_count' = Len(values.result.val)
                        /\ result' = IF sent THEN Ok(<<>>) ELSE Err(Message(<<"http">>))
                        /\ collect_stream' = IF sent THEN "open" ELSE "ended")
    /\ UNCHANGED <<setting, overflow_checks>>

\* The button presses the loop has taken from the stream
Events == Len(SelectSeq(calls, LAMBDA c : c.method = "defer"))

\* One pass of "while let Some(item) = collect_stream.next().await": a press
\* of a button; a request that fails returns the error from the viewer.
ViewerPress ==
    /\ collect_stream = "open"
    /\ Events < MaxEvents
    /\ \E item_id \in ItemIds, failing \in {"none", "defer", "respond"} :
         /\ op' = item_id
         /\ IF item_id = "close"
            THEN /\ index' = index
                 /\ calls' = IF failing = "defer"
                             THEN Append(calls, Call("defer", item_id))
                             ELSE calls \o <<Call("defer", item_id),
                                             Call("delete_response", index)>>
                 /\ collect_stream' = "ended"
                 /\ result' = IF failing = "none" THEN Ok(<<>>)
                              ELSE Err(Message(<<"http">>))
            ELSE /\ index' = IF failing = "defer"
                             THEN ItemIndex(item_id, index, total_count)
                             ELSE ClampIndex(ItemIndex(item_id, index, total_count),
                                             total_count)
                 /\ calls' = IF failing = "defer"
                             THEN Append(calls, Call("defer", item_id))
                             ELSE Render(Append(calls, Call("defer", item_id)),
                                         "edit_response", index')
                 /\ collect_stream' = IF failing = "none" THEN "open" ELSE "ended"
                 /\ result' = IF failing = "none" THEN result
                              ELSE Err(Message(<<"http">>))
    /\ UNCHANGED <<setting, args, reply, overflow_checks, total_count>>

\* The collector's timeout: the stream ends and the viewer returns Ok(())
ViewerTimeout ==
    /\ collect_stream = "open"
    /\ op' = "timeout"
    /\ collect_stream' = "ended"
    /\ result' = Ok(<<>>)
    /\ UNCHANGED <<setting, args, reply, calls, overflow_checks, total_count, index>>

NextViewer == ViewerStart \/ ViewerPress \/ ViewerTimeout

SpecViewer == InitViewer /\ [][NextViewer]_vars

\* The pages for which an embed was built
Built == SelectSeq(calls, LAMBDA c : c.method = "create_embed")

\* The viewer has left its loop by "close"
Closed == collect_stream = "ended" /\ op = "close"

\* C30: in the pagination loop of settings_viewer over a non-empty result,
\* every embed is built for a page within 0..total_count - 1, "previous" on
\* the first page and "next" on the last page leave the page where it is,
\* and no page is rendered after "close".
C30_PagerInBounds ==
    [][/\ \A k \in 1..Len(Built)' : Built[k]'.arg \in 0..(total_count' - 1)
       /\ collect_stream' = "open" => index' \in 0..(total_count' - 1)
       /\ (op' = "previous" /\ index = 0) => index' = 0
       /\ (op' = "next" /\ collect_stream = "open" /\ index = total_count - 1)
             => index' = index
       /\ Closed' => Built' = Built
       /\ Closed => calls' = calls]_vars

\* "next" was pressed on the last of several pages, which was shown again
C30_Witness ==
    /\ op = "next"
    /\ collect_stream = "open"
    /\ total_count = MaxPages
    /\ index = total_count - 1
    /\ Len(Built) > MaxPages
    /\ Built[Len(Built) - 1].arg = index

====
